---- MODULE Spec2Model ----
(***************************************************************************)
(* Model of llm-proxy: the SSE emitters of internal/api (streamResponse,   *)
(* streamChatCompletion) and the streaming-text adapter of internal/proxy  *)
(* (ClaudeAdapter.ChatStream / RespondStream with its plain-text           *)
(* fallback).                                                              *)
(*                                                                         *)
(* Text is a sequence of characters; a delta is a text.  The wire of a     *)
(* stream is the sequence of write calls the handler made on the SSE       *)
(* writer; the client receives the prefix of it written before the         *)
(* connection broke.                                                       *)
(***************************************************************************)
EXTENDS Integers, Sequences, FiniteSets, TLC

\* ------------------------------------------------------------------ bounds
MaxDeltaLen == 2
MaxEvents == 3
MaxLines == 3
MaxQueue == 3
MaxMsgs == 5
NumCallers == 3
MaxOps == 4
\* Messages the reader has parsed and no call has received yet.
MaxRpcQueue == 2
\* Entries of the content array of a message line.
MaxContent == 2

\* The notifications handled by the closure notify in one turn.
MaxNotes == 4
\* The lines the reader goroutine scans from stdout.
MaxRead == 4

\* ------------------------------------------------------------------ text
Chars == {"a", " "}

IsSpace(c) == c \in {" ", "\n"}

RECURSIVE TextsOfLen(_)
TextsOfLen(n) ==
    IF n = 0 THEN {<<>>}
    ELSE {Append(t, c) : t \in TextsOfLen(n - 1), c \in Chars}

Texts == UNION {TextsOfLen(n) : n \in 0..MaxDeltaLen}

RECURSIVE TrimLeft(_)
TrimLeft(s) ==
    IF s = <<>> THEN <<>>
    ELSE IF IsSpace(Head(s)) THEN TrimLeft(Tail(s))
    ELSE s

RECURSIVE TrimRight(_)
TrimRight(s) ==
    IF s = <<>> THEN <<>>
    ELSE IF IsSpace(s[Len(s)]) THEN TrimRight(SubSeq(s, 1, Len(s) - 1))
    ELSE s

TrimSpace(s) == TrimRight(TrimLeft(s))

RECURSIVE Concat(_)
Concat(ss) == IF ss = <<>> THEN <<>> ELSE Head(ss) \o Concat(Tail(ss))

\* ------------------------------------------------------------------ state
VARIABLES
    \* Server.streamResponse
    rPc,                    \* "off" | "idle" | "streaming" | "done" | "rejected"
    rEventAdapter,          \* adapter implements ResponsesEventAdapter
    rWire,                  \* write calls made on the SSE writer, in order
    rDelivered,             \* how many of them succeeded (a prefix)
    rConnOk,                \* the client connection still accepts writes
    rCancelled,             \* cancel() was called on the request scope
    rCbErr,                 \* a callback returned a write error
    rErr,                   \* err of the adapter call
    rFed,                   \* events the adapter passed to the callback
    seq,
    reasoningStarted,
    messageStarted,
    messageIndex,
    reasoningText,
    outputText,
    reasoningSummaryAdded,
    \* Server.streamChatCompletion
    cPc,                    \* "off" | "idle" | "streaming" | "done" | "rejected"
    cWire,                  \* write calls made on the SSE writer, in order
    cDelivered,             \* how many of them succeeded (a prefix)
    cConnOk,
    cCancelled,
    cCbErr,
    cErr,                   \* err of the adapter call
    cFed,                   \* deltas the adapter passed to the callback
    cOut,                   \* out (strings.Builder)
    \* ClaudeAdapter.ChatStream / RespondStream
    aPc,                    \* "off" | "idle" | "streaming" | "fallback" | "done"
    aSurface,               \* "ChatStream" | "RespondStream"
    aAuthErr,               \* a.authErr # nil (cached precondition failure)
    aHasCb,                 \* onDelta # nil
    aPlain,                 \* what a plain-text run of the CLI yields for the request
    aRuns,                  \* the CLI runs started, in order: "stream" | "text"
    aLines,                 \* lines scanned from the streaming run's stdout
    aOut,                   \* out (strings.Builder) of runClaudeStream
    aEmitted,               \* emitted of runClaudeStream
    aStreamErr,             \* err of runClaudeStream: "none" | "run" | "cb"
    aCalls,                 \* invocations of onDelta, in order
    aRet,                   \* what the call returned
    \* waitForTurnCompleted
    wPc,                    \* "off" | "call" | "done"
    wAlready,               \* alreadyCompleted
    wHasNotify,             \* notify # nil
    wMsgs,                  \* msgs: the messages buffered in the channel
    wClosed,                \* msgs was closed by the reader
    wCtxDone,               \* ctx.Done() is closed
    wRecv,                  \* messages received from msgs, in order
    wSeen,                  \* messages passed to notify, in order
    wRet,                   \* "pending" | "nil" | "ctx"
    \* CodexAdapter.runTurnStructured
    tPc,                    \* "off" | "setup" | "turnStart" | "wait" | "done"
    tHasConsumer,           \* onEvent # nil
    tCtxDone,               \* ctx.Done() is closed
    tAlive,                 \* the app-server subprocess is running
    tSpawned,               \* app-server subprocesses started by the call
    tCloses,                \* invocations of client.Close
    tN,                     \* notifications that changed the locals of the turn
    currentAgent,           \* state.currentAgent
    agentMsgs,              \* state.agentMsgs
    reasoning,              \* state.reasoning
    inAgentMsg,             \* state.inAgentMsg
    lastAgentMessage,
    callbackErr,            \* callbackErr # nil
    emittedReasoning,
    turnCompleted,
    tEvents,                \* invocations of onEvent, in order
    tItemAfterTask,         \* an agent-message notification followed a non-blank task_complete
    tLate,                  \* a message was received after the consumer returned an error
    tComputed,              \* state.result(lastAgentMessage) was computed
    tResult,                \* its value
    tErr,                   \* "pending" | "nil" | the error returned
    \* ensureSubscriptionMode and the adapter operations
    uAdapter,               \* "off" | "claude" | "codex"
    uEnvOk,                 \* the environment would pass the check now
    uDone,                  \* checkAuth has run (sync.Once)
    uHolder,                \* the caller inside checkAuth.Do's critical section, or 0
    uAuthErr,               \* a.authErr: "nil" or the failure
    uPc,                    \* per caller: "idle" | "do" | "lock" | "body" | "checked" | "done"
    uLast,                  \* the operation that returned last, and its caller
    uSaw,                   \* per caller: what ensureSubscriptionMode returned to it
    uLate,                  \* per caller: its operation began after the check had run
    uWaited,                \* per caller: it found the check done when it got the lock
    uSpawnedNow,            \* per caller: its operation started a backend subprocess
    uBodyRuns,              \* executions of the check body
    uOutcome,               \* the outcome of the first execution, "none" before it
    uOps,                   \* operations started
    \* One request in Server.CreateChatCompletion, Server.CreateResponse or their
    \* streaming forms.  pc: "off" | "recv" | "route" | "call" | "done"; req: the
    \* request; codexList: what CodexAdapter.ListModels would return now;
    \* adapter: the adapter the router chose; status: the HTTP status written, 0
    \* before; type: the type of the error written; origin: where the failure
    \* arose, "none" | "request" | "backend" | "server".
    http,
    \* The codexRPCClient of one runTurnStructured call.  pc: "off" | "new" |
    \* "send" | "recv" | "done"; step: the position in RpcMethods of the call to
    \* make or in progress; id: c.id; sent: the requests written to stdin; msgs:
    \* c.msgs, the parsed messages not yet received; closed: c.msgs was closed;
    \* stderr: c.stderr; rets: what the calls that returned have returned; last:
    \* the message on which the last call returned; seen: the messages the
    \* pending call received and went on from; notified: those of them it
    \* passed to onNotify; clients: clients created; err: "pending" | "nil" |
    \* the error runTurnStructured returns early.
    rpc,
    \* One call of CodexAdapter.ChatStream or RespondStream.  pc: "off" | "turn" |
    \* "done"; hasCb: onDelta # nil; calls: the invocations of onDelta; ret:
    \* "pending" | "nil" | the error returned.
    codexDelta,
    \* The scan loop of runClaudeStream.  pc: "off" | "scan"; parsed: a line was
    \* parsed; lastByIndex: the text recorded for each content index; last: the
    \* last line, the map before it and what the parser returned; full: per
    \* index, the last text the parser examined there; ext: per index, each text
    \* examined there extended the one before; concat: per index, the deltas
    \* emitted for it, concatenated.
    parser,
    \* The locals of one turn under the closure notify and the end of the turn.
    \* pc: "off" | "run" | "done"; st: the locals; n: notifications handled; msg:
    \* the notification handled last; segs: the texts of the agent-message
    \* deltas, one text for each stretch between two agent-message item
    \* notifications, the stretch in progress left out; res: what
    \* state.result returned; err: "pending" | "nil" | "callback" | "empty".
    turnState,
    \* The reader goroutine of a codexRPCClient, its channel, the subprocess and
    \* the goroutine that uses the client.  pc: "off" | "scan" | "send" | "exit";
    \* hold: the message the reader is sending, "none" when it sends none; msgs:
    \* c.msgs; closes: how many times c.msgs was closed; alive: the subprocess
    \* runs; lines: the lines the reader has scanned; recv: the messages
    \* received from c.msgs; user: "call" | "returned", whether the goroutine
    \* that owns the client is still in runTurnStructured; closeCalls:
    \* invocations of Close.
    reader

respVars == <<rPc, rEventAdapter, rWire, rDelivered, rConnOk, rCancelled, rCbErr,
              rErr, rFed, seq, reasoningStarted, messageStarted, messageIndex,
              reasoningText, outputText, reasoningSummaryAdded>>

chatVars == <<cPc, cWire, cDelivered, cConnOk, cCancelled, cCbErr, cErr, cFed, cOut>>

claudeVars == <<aPc, aSurface, aAuthErr, aHasCb, aPlain, aRuns, aLines, aOut,
                aEmitted, aStreamErr, aCalls, aRet>>

waitVars == <<wPc, wAlready, wHasNotify, wMsgs, wClosed, wCtxDone, wRecv, wSeen, wRet>>

turnVars == <<tPc, tHasConsumer, tCtxDone, tAlive, tSpawned, tCloses, tN, currentAgent,
              agentMsgs, reasoning, inAgentMsg, lastAgentMessage, callbackErr, emittedReasoning,
              turnCompleted, tEvents, tItemAfterTask, tLate, tComputed, tResult, tErr>>

authVars == <<uAdapter, uEnvOk, uDone, uHolder, uAuthErr, uPc, uLast, uSaw, uLate, uWaited,
              uSpawnedNow, uBodyRuns, uOutcome, uOps>>

vars == <<respVars, chatVars, claudeVars, waitVars, turnVars, authVars, http, rpc,
          codexDelta, parser, turnState, reader>>

nonRespVars == <<chatVars, claudeVars, waitVars, turnVars, authVars, http, rpc,
                codexDelta, parser, turnState, reader>>

nonChatVars == <<respVars, claudeVars, waitVars, turnVars, authVars, http, rpc,
                codexDelta, parser, turnState, reader>>

nonClaudeVars == <<respVars, chatVars, waitVars, turnVars, authVars, http, rpc,
                  codexDelta, parser, turnState, reader>>

nonWaitVars == <<respVars, chatVars, claudeVars, turnVars, authVars, http, rpc,
                codexDelta, parser, turnState, reader>>

nonTurnVars == <<respVars, chatVars, claudeVars, waitVars, authVars, http, rpc,
                codexDelta, parser, turnState, reader>>

nonAuthVars == <<respVars, chatVars, claudeVars, waitVars, turnVars, http, rpc,
                codexDelta, parser, turnState, reader>>

nonHttpVars == <<respVars, chatVars, claudeVars, waitVars, turnVars, authVars, rpc,
                codexDelta, parser, turnState, reader>>

nonRpcVars == <<respVars, chatVars, claudeVars, waitVars, turnVars, authVars, http,
               codexDelta, parser, turnState, reader>>

nonDeltaVars == <<respVars, chatVars, claudeVars, waitVars, turnVars, authVars, http,
                 rpc, parser, turnState, reader>>

nonParserVars == <<respVars, chatVars, claudeVars, waitVars, turnVars, authVars, http,
                  rpc, codexDelta, turnState, reader>>

nonTurnStateVars == <<respVars, chatVars, claudeVars, waitVars, turnVars, authVars, http,
                     rpc, codexDelta, parser, reader>>

nonReaderVars == <<respVars, chatVars, claudeVars, waitVars, turnVars, authVars, http,
                  rpc, codexDelta, parser, turnState>>

\* No waitForTurnCompleted call is in progress.
WaitOff ==
    /\ wPc = "off"
    /\ wAlready = FALSE
    /\ wHasNotify = FALSE
    /\ wMsgs = <<>>
    /\ wClosed = FALSE
    /\ wCtxDone = FALSE
    /\ wRecv = <<>>
    /\ wSeen = <<>>
    /\ wRet = "pending"

\* The zero codexTurnResult.
NoResult == [Output |-> <<>>, Reasoning |-> <<>>]

\* No runTurnStructured call is in progress.
TurnOff ==
    /\ tPc = "off"
    /\ tHasConsumer = FALSE
    /\ tCtxDone = FALSE
    /\ tAlive = FALSE
    /\ tSpawned = 0
    /\ tCloses = 0
    /\ tN = 0
    /\ currentAgent = <<>>
    /\ agentMsgs = <<>>
    /\ reasoning = <<>>
    /\ inAgentMsg = FALSE
    /\ lastAgentMessage = <<>>
    /\ callbackErr = FALSE
    /\ emittedReasoning = FALSE
    /\ turnCompleted = FALSE
    /\ tEvents = <<>>
    /\ tItemAfterTask = FALSE
    /\ tLate = FALSE
    /\ tComputed = FALSE
    /\ tResult = NoResult
    /\ tErr = "pending"

\* The goroutines that call one adapter.
Callers == 1..NumCallers

\* An adapter on which no operation was called yet.
AuthFresh ==
    /\ uDone = FALSE
    /\ uHolder = 0
    /\ uAuthErr = "nil"
    /\ uPc = [c \in Callers |-> "idle"]
    /\ uLast = [caller |-> 0, op |-> "none"]
    /\ uSaw = [c \in Callers |-> "none"]
    /\ uLate = [c \in Callers |-> FALSE]
    /\ uWaited = [c \in Callers |-> FALSE]
    /\ uSpawnedNow = [c \in Callers |-> FALSE]
    /\ uBodyRuns = 0
    /\ uOutcome = "none"
    /\ uOps = 0

\* No adapter is being called.
AuthOff ==
    /\ uAdapter = "off"
    /\ uEnvOk = FALSE
    /\ AuthFresh

\* A component that takes no part in a run.
Off == [pc |-> "off"]

HttpOff == http = Off

RpcOff == rpc = Off

DeltaOff == codexDelta = Off

ParserOff == parser = Off

TurnStateOff == turnState = Off

ReaderOff == reader = Off

\* The components that take no part in a run of the streaming emitters.
ProxyOff ==
    /\ WaitOff /\ TurnOff /\ AuthOff /\ HttpOff /\ RpcOff /\ DeltaOff /\ ParserOff
    /\ TurnStateOff /\ ReaderOff

\* ------------------------------------------------------------------ SSE writer
\* One event on the wire.  seq = 0: the event has no sequence_number;
\* idx = -1: it has no output_index; item = "none": it references no item.
Ev(type, sq, item, idx, text, output) ==
    [type |-> type, seq |-> sq, item |-> item, idx |-> idx, text |-> text,
     output |-> output]

DoneEv == Ev("[DONE]", 0, "none", -1, <<>>, <<>>)

ErrorEv == Ev("error", 0, "none", -1, <<>>, <<>>)

\* sseWriter.writeJSON: the call is recorded; it succeeds while the connection
\* is up and the client has not gone away (budget = writes the client still
\* accepts during this step).  A failed write leaves the connection broken.
writeJSON(st, ev) ==
    LET ok == st.connOk /\ st.budget > 0
    IN  [st EXCEPT !.wire = Append(@, ev),
                   !.delivered = IF ok THEN @ + 1 ELSE @,
                   !.budget = IF ok THEN @ - 1 ELSE @,
                   !.connOk = ok,
                   !.err = ~ok]

writeDone(st) == writeJSON(st, DoneEv)

\* ------------------------------------------------------------------ streamResponse
reasoningItemID == "rsn"
messageItemID == "msg"
reasoningIndex == 0

\* Mutant of nextSeq: the counter is read but not advanced.
nextSeq_NoIncrement(st) == st

\* nextSeq returns st.seq and leaves the counter one higher.
nextSeq(st) == [st EXCEPT !.seq = @ + 1]

writeSeq(st, type, item, idx, text) ==
    writeJSON(nextSeq(st), Ev(type, st.seq, item, idx, text, <<>>))

\* Mutant of startReasoning: the message item's index is not raised.
startReasoning_KeepIndex(st) ==
    IF st.reasoningStarted THEN [st EXCEPT !.err = FALSE]
    ELSE
        LET s1 == [st EXCEPT !.reasoningStarted = TRUE]
            s2 == writeSeq(s1, "response.output_item.added", reasoningItemID,
                           reasoningIndex, <<>>)
        IN  IF s2.err THEN s2
            ELSE IF ~s2.reasoningSummaryAdded
            THEN writeSeq([s2 EXCEPT !.reasoningSummaryAdded = TRUE],
                          "response.reasoning_summary_part.added", reasoningItemID,
                          reasoningIndex, <<>>)
            ELSE s2

startReasoning(st) ==
    IF st.reasoningStarted THEN [st EXCEPT !.err = FALSE]
    ELSE
        LET s1 == [st EXCEPT !.reasoningStarted = TRUE,
                             !.messageIndex = IF st.messageStarted THEN 1 ELSE @]
            s2 == writeSeq(s1, "response.output_item.added", reasoningItemID,
                           reasoningIndex, <<>>)
        IN  IF s2.err THEN s2
            ELSE IF ~s2.reasoningSummaryAdded
            THEN writeSeq([s2 EXCEPT !.reasoningSummaryAdded = TRUE],
                          "response.reasoning_summary_part.added", reasoningItemID,
                          reasoningIndex, <<>>)
            ELSE s2

startMessage(st) ==
    IF st.messageStarted THEN [st EXCEPT !.err = FALSE]
    ELSE
        LET s1 == [st EXCEPT !.messageStarted = TRUE,
                             !.messageIndex = IF st.reasoningStarted THEN 1 ELSE 0]
        IN  writeSeq(s1, "response.output_item.added", messageItemID,
                     s1.messageIndex, <<>>)

emitReasoningDelta(st, delta) ==
    IF delta = <<>> THEN [st EXCEPT !.err = FALSE]
    ELSE
        LET s1 == startReasoning(st)
            s2 == [s1 EXCEPT !.reasoningText = @ \o delta]
            s3 == writeSeq(s2, "response.reasoning_summary_text.delta",
                           reasoningItemID, reasoningIndex, delta)
        IN  IF s1.err THEN s1
            ELSE IF s3.err THEN s3
            ELSE writeSeq(s3, "response.reasoning_text.delta", reasoningItemID,
                          reasoningIndex, delta)

\* Mutant of emitOutputDelta: the accumulator keeps the last delta only.
emitOutputDelta_LastDeltaOnly(st, delta) ==
    IF delta = <<>> THEN [st EXCEPT !.err = FALSE]
    ELSE
        LET s1 == startMessage(st)
            s2 == [s1 EXCEPT !.outputText = delta]
        IN  IF s1.err THEN s1
            ELSE writeSeq(s2, "response.output_text.delta", messageItemID,
                          s2.messageIndex, delta)

emitOutputDelta(st, delta) ==
    IF delta = <<>> THEN [st EXCEPT !.err = FALSE]
    ELSE
        LET s1 == startMessage(st)
            s2 == [s1 EXCEPT !.outputText = @ \o delta]
        IN  IF s1.err THEN s1
            ELSE writeSeq(s2, "response.output_text.delta", messageItemID,
                          s2.messageIndex, delta)

\* The callback handed to RespondStreamEvents / RespondStream.
onEvent(st, kind, delta) ==
    IF kind = "reasoning" THEN emitReasoningDelta(st, delta)
    ELSE emitOutputDelta(st, delta)

\* The four done events of the reasoning item (written only if it started).
reasoningDone(st) ==
    IF ~st.reasoningStarted THEN st
    ELSE
        LET full == st.reasoningText
            s1 == writeSeq(st, "response.reasoning_summary_text.done",
                           reasoningItemID, reasoningIndex, full)
            s2 == writeSeq(s1, "response.reasoning_summary_part.done",
                           reasoningItemID, reasoningIndex, full)
            s3 == writeSeq(s2, "response.reasoning_text.done", reasoningItemID,
                           reasoningIndex, full)
        IN  writeSeq(s3, "response.output_item.done", reasoningItemID,
                     reasoningIndex, full)

messageDone(st) ==
    LET full == st.outputText
        s1 == writeSeq(st, "response.output_text.done", messageItemID,
                       st.messageIndex, full)
    IN  writeSeq(s1, "response.output_item.done", messageItemID,
                 s1.messageIndex, full)

outputItems(st) ==
    (IF st.reasoningStarted
     THEN <<[item |-> reasoningItemID, text |-> st.reasoningText]>>
     ELSE <<>>)
    \o <<[item |-> messageItemID, text |-> st.outputText]>>

\* Mutant of completeResponse: the message done events come first.
completeResponse_MessageFirst(st) ==
    LET s1 == IF ~st.messageStarted THEN startMessage(st) ELSE st
        s2 == messageDone(s1)
        s3 == reasoningDone(s2)
        s4 == writeJSON(s3, Ev("response.completed", 0, "none", -1, <<>>,
                               outputItems(s3)))
    IN  writeDone(s4)

\* The tail of streamResponse after the adapter returned nil.
completeResponse(st) ==
    LET s1 == IF ~st.messageStarted THEN startMessage(st) ELSE st
        s2 == reasoningDone(s1)
        s3 == messageDone(s2)
        s4 == writeJSON(s3, Ev("response.completed", 0, "none", -1, <<>>,
                               outputItems(s3)))
    IN  writeDone(s4)

\* Mutant of failResponse: the terminator is not written after the error.
failResponse_NoTerminator(st) == writeJSON(st, ErrorEv)

\* The tail of streamResponse after the adapter returned an error.
failResponse(st) == writeDone(writeJSON(st, ErrorEv))

RespSt(k) ==
    [seq |-> seq, reasoningStarted |-> reasoningStarted,
     messageStarted |-> messageStarted, messageIndex |-> messageIndex,
     reasoningText |-> reasoningText, outputText |-> outputText,
     reasoningSummaryAdded |-> reasoningSummaryAdded,
     wire |-> rWire, delivered |-> rDelivered, connOk |-> rConnOk,
     budget |-> k, err |-> FALSE]

RespSet(st) ==
    /\ seq' = st.seq
    /\ reasoningStarted' = st.reasoningStarted
    /\ messageStarted' = st.messageStarted
    /\ messageIndex' = st.messageIndex
    /\ reasoningText' = st.reasoningText
    /\ outputText' = st.outputText
    /\ reasoningSummaryAdded' = st.reasoningSummaryAdded
    /\ rWire' = st.wire
    /\ rDelivered' = st.delivered
    /\ rConnOk' = st.connOk

Kinds == {"reasoning", "output"}

RespInit ==
    /\ rPc = "idle"
    /\ rEventAdapter \in BOOLEAN
    /\ rWire = <<>>
    /\ rDelivered = 0
    /\ rConnOk = TRUE
    /\ rCancelled = FALSE
    /\ rCbErr = FALSE
    /\ rErr = FALSE
    /\ rFed = <<>>
    /\ seq = 1
    /\ reasoningStarted = FALSE
    /\ messageStarted = FALSE
    /\ messageIndex = 0
    /\ reasoningText = <<>>
    /\ outputText = <<>>
    /\ reasoningSummaryAdded = FALSE

\* AdapterForModel or newSSEWriter failed: a JSON error body, no SSE stream.
RespReject ==
    /\ rPc = "idle"
    /\ rPc' = "rejected"
    /\ UNCHANGED <<rEventAdapter, rWire, rDelivered, rConnOk, rCancelled, rCbErr,
                   rErr, rFed, seq, reasoningStarted, messageStarted,
                   messageIndex, reasoningText, outputText,
                   reasoningSummaryAdded>>
    /\ UNCHANGED nonRespVars

\* The stream starts: response.created is written, the adapter call begins.
RespStart ==
    /\ rPc = "idle"
    /\ \E k \in 0..1 :
         RespSet(writeJSON(RespSt(k),
                           Ev("response.created", 0, "none", -1, <<>>, <<>>)))
    /\ rPc' = "streaming"
    /\ UNCHANGED <<rEventAdapter, rCancelled, rCbErr, rErr, rFed>>
    /\ UNCHANGED nonRespVars

\* The adapter invokes the callback with one event.
RespOnEvent ==
    /\ rPc = "streaming"
    /\ ~rCbErr
    /\ Len(rFed) < MaxEvents
    /\ \E kind \in Kinds, delta \in Texts, k \in 0..4 :
         /\ rEventAdapter \/ kind = "output"
         /\ LET st == onEvent(RespSt(k), kind, delta)
            IN  /\ RespSet(st)
                /\ rCbErr' = st.err
                /\ rCancelled' = (rCancelled \/ st.err)
         /\ rFed' = Append(rFed, [kind |-> kind, delta |-> delta])
    /\ UNCHANGED <<rPc, rEventAdapter, rErr>>
    /\ UNCHANGED nonRespVars

\* The adapter call returns nil: the done events and response.completed.
RespComplete ==
    /\ rPc = "streaming"
    /\ ~rCbErr
    /\ \E k \in 0..10 : RespSet(completeResponse(RespSt(k)))
    /\ rPc' = "done"
    /\ rErr' = FALSE
    /\ UNCHANGED <<rEventAdapter, rCancelled, rCbErr, rFed>>
    /\ UNCHANGED nonRespVars

\* The adapter call returns an error (its own, or the callback's).
RespFail ==
    /\ rPc = "streaming"
    /\ \E k \in 0..2 : RespSet(failResponse(RespSt(k)))
    /\ rPc' = "done"
    /\ rErr' = TRUE
    /\ UNCHANGED <<rEventAdapter, rCancelled, rCbErr, rFed>>
    /\ UNCHANGED nonRespVars

\* No /v1/responses request is in progress.
RespOff ==
    /\ rPc = "off"
    /\ rEventAdapter = FALSE
    /\ rWire = <<>>
    /\ rDelivered = 0
    /\ rConnOk = TRUE
    /\ rCancelled = FALSE
    /\ rCbErr = FALSE
    /\ rErr = FALSE
    /\ rFed = <<>>
    /\ seq = 1
    /\ reasoningStarted = FALSE
    /\ messageStarted = FALSE
    /\ messageIndex = 0
    /\ reasoningText = <<>>
    /\ outputText = <<>>
    /\ reasoningSummaryAdded = FALSE

\* ------------------------------------------------------------------ streamChatCompletion
\* One chat.completion.chunk (or error object, or terminator) on the wire.
Chunk(kind, content, finish) == [kind |-> kind, content |-> content, finish |-> finish]

RoleChunk == Chunk("role", <<>>, "")

FinishChunk == Chunk("finish", <<>>, "stop")

ErrorChunk == Chunk("error", <<>>, "")

DoneChunk == Chunk("[DONE]", <<>>, "")

\* The onDelta callback handed to ChatStream.
chatOnDelta(st, delta) ==
    IF TrimSpace(delta) = <<>> THEN [st EXCEPT !.err = FALSE]
    ELSE writeJSON([st EXCEPT !.out = @ \o delta], Chunk("content", delta, ""))

\* Mutant of completeChat: the finish chunk is not written.
completeChat_NoFinish(st) == writeJSON(st, DoneChunk)

\* The tail of streamChatCompletion after the adapter returned nil.
completeChat(st) == writeJSON(writeJSON(st, FinishChunk), DoneChunk)

\* The tail of streamChatCompletion after the adapter returned an error.
failChat(st) == writeJSON(writeJSON(st, ErrorChunk), DoneChunk)

ChatSt(k) ==
    [out |-> cOut, wire |-> cWire, delivered |-> cDelivered, connOk |-> cConnOk,
     budget |-> k, err |-> FALSE]

ChatSet(st) ==
    /\ cOut' = st.out
    /\ cWire' = st.wire
    /\ cDelivered' = st.delivered
    /\ cConnOk' = st.connOk

ChatInit ==
    /\ cPc = "idle"
    /\ cWire = <<>>
    /\ cDelivered = 0
    /\ cConnOk = TRUE
    /\ cCancelled = FALSE
    /\ cCbErr = FALSE
    /\ cErr = FALSE
    /\ cFed = <<>>
    /\ cOut = <<>>

\* No /v1/chat/completions request is in progress.
ChatOff ==
    /\ cPc = "off"
    /\ cWire = <<>>
    /\ cDelivered = 0
    /\ cConnOk = TRUE
    /\ cCancelled = FALSE
    /\ cCbErr = FALSE
    /\ cErr = FALSE
    /\ cFed = <<>>
    /\ cOut = <<>>

\* AdapterForModel or newSSEWriter failed: a JSON error body, no SSE stream.
ChatReject ==
    /\ cPc = "idle"
    /\ cPc' = "rejected"
    /\ UNCHANGED <<cWire, cDelivered, cConnOk, cCancelled, cCbErr, cErr, cFed, cOut>>
    /\ UNCHANGED nonChatVars

\* The stream starts: the role announcement is written, the adapter call begins.
ChatStart ==
    /\ cPc = "idle"
    /\ \E k \in 0..1 : ChatSet(writeJSON(ChatSt(k), RoleChunk))
    /\ cPc' = "streaming"
    /\ UNCHANGED <<cCancelled, cCbErr, cErr, cFed>>
    /\ UNCHANGED nonChatVars

\* The adapter invokes the callback with one delta.
ChatOnDelta ==
    /\ cPc = "streaming"
    /\ ~cCbErr
    /\ Len(cFed) < MaxEvents
    /\ \E delta \in Texts, k \in 0..1 :
         /\ LET st == chatOnDelta(ChatSt(k), delta)
            IN  /\ ChatSet(st)
                /\ cCbErr' = st.err
                /\ cCancelled' = (cCancelled \/ st.err)
         /\ cFed' = Append(cFed, delta)
    /\ UNCHANGED <<cPc, cErr>>
    /\ UNCHANGED nonChatVars

\* The adapter call returns nil: the finish chunk and the terminator.
ChatComplete ==
    /\ cPc = "streaming"
    /\ ~cCbErr
    /\ \E k \in 0..2 : ChatSet(completeChat(ChatSt(k)))
    /\ cPc' = "done"
    /\ cErr' = FALSE
    /\ UNCHANGED <<cCancelled, cCbErr, cFed>>
    /\ UNCHANGED nonChatVars

\* The adapter call returns an error (its own, or the callback's).
ChatFail ==
    /\ cPc = "streaming"
    /\ \E k \in 0..2 : ChatSet(failChat(ChatSt(k)))
    /\ cPc' = "done"
    /\ cErr' = TRUE
    /\ UNCHANGED <<cCancelled, cCbErr, cFed>>
    /\ UNCHANGED nonChatVars

\* ------------------------------------------------------------------ ClaudeAdapter
NoRet == [err |-> "pending", text |-> <<>>]

Ret(err, text) == [err |-> err, text |-> text]

\* One invocation of onDelta: the delta, whether it is the fallback's synthetic
\* delta, and whether the consumer accepted it (returned nil).
Call(delta, synthetic, ok) == [delta |-> delta, synthetic |-> synthetic, ok |-> ok]

\* Outcomes of runClaudeText: an error, or the captured stdout.
PlainOutcomes == {[ok |-> FALSE, out |-> <<>>]} \cup {[ok |-> TRUE, out |-> t] : t \in Texts}

\* Mutant of synthesize: the synthetic delta is sent although deltas were emitted.
synthesize_IgnoreEmitted(emitted, hasCb, text) == hasCb /\ text # <<>>

\* The guard of the synthetic delta: !emitted && onDelta != nil && text != "".
synthesize(emitted, hasCb, text) == ~emitted /\ hasCb /\ text # <<>>

\* Mutant of fallback: a failed streaming run is returned as a failure even
\* though the plain-text run succeeded.
fallback_KeepStreamError(streamErr, emitted, hasCb, plain, cbOk) ==
    LET text == TrimSpace(plain.out)
    IN  IF ~plain.ok \/ streamErr # "none"
        THEN [calls |-> <<>>,
              ret |-> Ret(IF streamErr # "none" THEN "stream" ELSE "fallback", <<>>)]
        ELSE IF synthesize(emitted, hasCb, text)
        THEN [calls |-> <<Call(text, TRUE, cbOk)>>,
              ret |-> IF cbOk THEN Ret("nil", text) ELSE Ret("cb", <<>>)]
        ELSE [calls |-> <<>>, ret |-> Ret("nil", text)]

\* ChatStream / RespondStream after runClaudeStream returned an error
\* (streamErr # "none") or a blank text: the plain-text run, the synthetic
\* delta and the value returned.  cbOk: the consumer accepts the delta.
fallback(streamErr, emitted, hasCb, plain, cbOk) ==
    LET text == TrimSpace(plain.out)
    IN  IF ~plain.ok
        THEN [calls |-> <<>>,
              ret |-> Ret(IF streamErr # "none" THEN "stream" ELSE "fallback", <<>>)]
        ELSE IF synthesize(emitted, hasCb, text)
        THEN [calls |-> <<Call(text, TRUE, cbOk)>>,
              ret |-> IF cbOk THEN Ret("nil", text) ELSE Ret("cb", <<>>)]
        ELSE [calls |-> <<>>, ret |-> Ret("nil", text)]

ClaudeInit ==
    /\ aPc = "idle"
    /\ aSurface \in {"ChatStream", "RespondStream"}
    /\ aAuthErr \in BOOLEAN
    /\ aHasCb \in BOOLEAN
    /\ aPlain \in PlainOutcomes
    /\ aRuns = <<>>
    /\ aLines = 0
    /\ aOut = <<>>
    /\ aEmitted = FALSE
    /\ aStreamErr = "none"
    /\ aCalls = <<>>
    /\ aRet = NoRet

\* No call on the streaming-text adapter is in progress.
ClaudeOff ==
    /\ aPc = "off"
    /\ aSurface = "ChatStream"
    /\ aAuthErr = FALSE
    /\ aHasCb = FALSE
    /\ aPlain = [ok |-> FALSE, out |-> <<>>]
    /\ aRuns = <<>>
    /\ aLines = 0
    /\ aOut = <<>>
    /\ aEmitted = FALSE
    /\ aStreamErr = "none"
    /\ aCalls = <<>>
    /\ aRet = NoRet

\* ensureSubscriptionMode returns the cached failure: the call returns it.
ClaudeAuthFail ==
    /\ aPc = "idle"
    /\ aAuthErr
    /\ aPc' = "done"
    /\ aRet' = Ret("auth", <<>>)
    /\ UNCHANGED <<aSurface, aAuthErr, aHasCb, aPlain, aRuns, aLines, aOut, aEmitted,
                   aStreamErr, aCalls>>
    /\ UNCHANGED nonClaudeVars

\* runClaudeStream starts the CLI in streaming mode; StdoutPipe or Start may fail.
ClaudeStartStream ==
    /\ aPc = "idle"
    /\ ~aAuthErr
    /\ aRuns' = Append(aRuns, "stream")
    /\ \E started \in BOOLEAN :
         IF started
         THEN aPc' = "streaming" /\ aStreamErr' = aStreamErr
         ELSE aPc' = "fallback" /\ aStreamErr' = "run"
    /\ UNCHANGED <<aSurface, aAuthErr, aHasCb, aPlain, aLines, aOut, aEmitted, aCalls,
                   aRet>>
    /\ UNCHANGED nonClaudeVars

\* One iteration of the scan loop: a line whose parsed delta is delta (<<>>: the
\* line is blank, not parsed, or carries no text).
ClaudeLine ==
    /\ aPc = "streaming"
    /\ aLines < MaxLines
    /\ aLines' = aLines + 1
    /\ \E delta \in Texts, cbOk \in BOOLEAN :
         IF delta = <<>>
         THEN UNCHANGED <<aPc, aOut, aEmitted, aStreamErr, aCalls>>
         ELSE /\ aOut' = aOut \o delta
              /\ aEmitted' = TRUE
              /\ IF aHasCb
                 THEN /\ aCalls' = Append(aCalls, Call(delta, FALSE, cbOk))
                      /\ IF cbOk
                         THEN UNCHANGED <<aPc, aStreamErr>>
                         ELSE aPc' = "fallback" /\ aStreamErr' = "cb"
                 ELSE UNCHANGED <<aPc, aStreamErr, aCalls>>
    /\ UNCHANGED <<aSurface, aAuthErr, aHasCb, aPlain, aRuns, aRet>>
    /\ UNCHANGED nonClaudeVars

\* The scan loop ends: a scanner error, a failed Wait, or a clean exit.  A clean
\* exit with a non-blank text returns it; everything else goes to the fallback.
ClaudeStreamEnd ==
    /\ aPc = "streaming"
    /\ \E failed \in BOOLEAN :
         IF failed
         THEN aStreamErr' = "run" /\ aPc' = "fallback" /\ aRet' = aRet
         ELSE /\ aStreamErr' = aStreamErr
              /\ IF TrimSpace(TrimSpace(aOut)) = <<>>
                 THEN aPc' = "fallback" /\ aRet' = aRet
                 ELSE aPc' = "done" /\ aRet' = Ret("nil", TrimSpace(aOut))
    /\ UNCHANGED <<aSurface, aAuthErr, aHasCb, aPlain, aRuns, aLines, aOut, aEmitted,
                   aCalls>>
    /\ UNCHANGED nonClaudeVars

\* The plain-text run after a failed or blank streaming run, and the return.
ClaudeFallback ==
    /\ aPc = "fallback"
    /\ aRuns' = Append(aRuns, "text")
    /\ \E cbOk \in BOOLEAN :
         LET r == fallback(aStreamErr, aEmitted, aHasCb, aPlain, cbOk)
         IN  /\ aCalls' = aCalls \o r.calls
             /\ aRet' = r.ret
    /\ aPc' = "done"
    /\ UNCHANGED <<aSurface, aAuthErr, aHasCb, aPlain, aLines, aOut, aEmitted,
                   aStreamErr>>
    /\ UNCHANGED nonClaudeVars

ClaudeNext ==
    \/ ClaudeAuthFail
    \/ ClaudeStartStream
    \/ ClaudeLine
    \/ ClaudeStreamEnd
    \/ ClaudeFallback

\* One streaming call on the streaming-text adapter, outside any HTTP handler.
ClaudeCallInit == ClaudeInit /\ RespOff /\ ChatOff /\ ProxyOff

\* Chat or Respond is called.
ClaudeTextInit ==
    /\ aPc = "call"
    /\ aSurface \in {"Chat", "Respond"}
    /\ aAuthErr \in BOOLEAN
    /\ aHasCb = FALSE
    /\ aPlain \in PlainOutcomes
    /\ aRuns = <<>>
    /\ aLines = 0
    /\ aOut = <<>>
    /\ aEmitted = FALSE
    /\ aStreamErr = "none"
    /\ aCalls = <<>>
    /\ aRet = NoRet

\* Mutant of ClaudeText: a failed run of the CLI is repeated.
ClaudeText_Retry ==
    /\ aPc = "call"
    /\ IF aAuthErr
       THEN aRet' = Ret("auth", <<>>) /\ UNCHANGED aRuns
       ELSE IF aPlain.ok
       THEN aRuns' = Append(aRuns, "text") /\ aRet' = Ret("nil", TrimSpace(aPlain.out))
       ELSE aRuns' = aRuns \o <<"text", "text">> /\ aRet' = Ret("run", <<>>)
    /\ aPc' = "done"
    /\ UNCHANGED <<aSurface, aAuthErr, aHasCb, aPlain, aLines, aOut, aEmitted,
                   aStreamErr, aCalls>>
    /\ UNCHANGED nonClaudeVars

\* Chat and Respond: the cached failure of the subscription check is returned,
\* or runClaudeText runs the CLI and its trimmed output or its error is returned.
ClaudeText ==
    /\ aPc = "call"
    /\ IF aAuthErr
       THEN aRet' = Ret("auth", <<>>) /\ UNCHANGED aRuns
       ELSE /\ aRuns' = Append(aRuns, "text")
            /\ aRet' = (IF aPlain.ok THEN Ret("nil", TrimSpace(aPlain.out))
                        ELSE Ret("run", <<>>))
    /\ aPc' = "done"
    /\ UNCHANGED <<aSurface, aAuthErr, aHasCb, aPlain, aLines, aOut, aEmitted,
                   aStreamErr, aCalls>>
    /\ UNCHANGED nonClaudeVars

ClaudeTextCallInit == ClaudeTextInit /\ RespOff /\ ChatOff /\ ProxyOff

SpecClaude == ClaudeCallInit /\ [][ClaudeNext]_vars

\* ------------------------------------------------------------------ waitForTurnCompleted
\* The methods of the messages a wait can meet.
WaitMethods == {"turn/completed", "item/agentMessage/delta", "item/started"}

RECURSIVE SeqsUpTo(_, _)
SeqsUpTo(S, n) ==
    IF n = 0 THEN {<<>>}
    ELSE SeqsUpTo(S, n - 1)
         \cup {Append(q, m) : q \in {r \in SeqsUpTo(S, n - 1) : Len(r) = n - 1}, m \in S}

\* What one pass of the function does: return ("nil" | "ctx"), receive the head
\* of msgs (recv), pass it to notify (seen), or block.
WaitOutcome(ret, recv, seen) == [ret |-> ret, recv |-> recv, seen |-> seen]

\* Mutant of waitForTurnCompleted: alreadyCompleted is not looked at.
waitForTurnCompleted_IgnoreAlready(already, ctxIsDone, msgs, closed, hasNotify, pick) ==
    IF ctxIsDone /\ (pick = "ctx" \/ (msgs = <<>> /\ ~closed))
    THEN WaitOutcome("ctx", FALSE, FALSE)
    ELSE IF msgs # <<>>
    THEN WaitOutcome(IF Head(msgs) = "turn/completed" THEN "nil" ELSE "again",
                     TRUE, hasNotify)
    ELSE IF closed THEN WaitOutcome("nil", FALSE, FALSE)
    ELSE WaitOutcome("block", FALSE, FALSE)

\* Mutant of waitForTurnCompleted: the completion message ends the loop before
\* it is passed to notify.
waitForTurnCompleted_CompletionUnobserved(already, ctxIsDone, msgs, closed, hasNotify, pick) ==
    IF already THEN WaitOutcome("nil", FALSE, FALSE)
    ELSE IF ctxIsDone /\ (pick = "ctx" \/ (msgs = <<>> /\ ~closed))
    THEN WaitOutcome("ctx", FALSE, FALSE)
    ELSE IF msgs # <<>>
    THEN IF Head(msgs) = "turn/completed"
         THEN WaitOutcome("nil", TRUE, FALSE)
         ELSE WaitOutcome("again", TRUE, hasNotify)
    ELSE IF closed THEN WaitOutcome("nil", FALSE, FALSE)
    ELSE WaitOutcome("block", FALSE, FALSE)

\* Mutant of waitForTurnCompleted: a closed source is reported as an error.
waitForTurnCompleted_ClosedIsError(already, ctxIsDone, msgs, closed, hasNotify, pick) ==
    IF already THEN WaitOutcome("nil", FALSE, FALSE)
    ELSE IF ctxIsDone /\ (pick = "ctx" \/ (msgs = <<>> /\ ~closed))
    THEN WaitOutcome("ctx", FALSE, FALSE)
    ELSE IF msgs # <<>>
    THEN WaitOutcome(IF Head(msgs) = "turn/completed" THEN "nil" ELSE "again",
                     TRUE, hasNotify)
    ELSE IF closed THEN WaitOutcome("closed", FALSE, FALSE)
    ELSE WaitOutcome("block", FALSE, FALSE)

\* One pass of waitForTurnCompleted: the early return, then one round of the
\* select.  pick is the case the select takes when both are ready.
waitForTurnCompleted(already, ctxIsDone, msgs, closed, hasNotify, pick) ==
    IF already THEN WaitOutcome("nil", FALSE, FALSE)
    ELSE IF ctxIsDone /\ (pick = "ctx" \/ (msgs = <<>> /\ ~closed))
    THEN WaitOutcome("ctx", FALSE, FALSE)
    ELSE IF msgs # <<>>
    THEN WaitOutcome(IF Head(msgs) = "turn/completed" THEN "nil" ELSE "again",
                     TRUE, hasNotify)
    ELSE IF closed THEN WaitOutcome("nil", FALSE, FALSE)
    ELSE WaitOutcome("block", FALSE, FALSE)

\* A call of waitForTurnCompleted on a channel that may hold messages, be
\* closed, and a context that may be done.
WaitInit ==
    /\ wPc = "call"
    /\ wAlready \in BOOLEAN
    /\ wHasNotify \in BOOLEAN
    /\ wMsgs \in SeqsUpTo(WaitMethods, MaxQueue)
    /\ wClosed \in BOOLEAN
    /\ wCtxDone \in BOOLEAN
    /\ wRecv = <<>>
    /\ wSeen = <<>>
    /\ wRet = "pending"

\* The function takes one pass: it returns, or receives one message.
WaitStep ==
    /\ wPc = "call"
    /\ \E pick \in {"ctx", "msgs"} :
         LET r == waitForTurnCompleted(wAlready, wCtxDone, wMsgs, wClosed,
                                       wHasNotify, pick)
         IN  /\ r.ret # "block"
             /\ wMsgs' = IF r.recv THEN Tail(wMsgs) ELSE wMsgs
             /\ wRecv' = IF r.recv THEN Append(wRecv, Head(wMsgs)) ELSE wRecv
             /\ wSeen' = IF r.seen THEN Append(wSeen, Head(wMsgs)) ELSE wSeen
             /\ wRet' = IF r.ret = "again" THEN wRet ELSE r.ret
             /\ wPc' = IF r.ret = "again" THEN "call" ELSE "done"
    /\ UNCHANGED <<wAlready, wHasNotify, wClosed, wCtxDone>>
    /\ UNCHANGED nonWaitVars

\* The reader goroutine puts one more message into the channel.
WaitSend ==
    /\ wPc = "call"
    /\ ~wClosed
    /\ Len(wRecv) + Len(wMsgs) < MaxQueue
    /\ \E m \in WaitMethods : wMsgs' = Append(wMsgs, m)
    /\ UNCHANGED <<wPc, wAlready, wHasNotify, wClosed, wCtxDone, wRecv, wSeen, wRet>>
    /\ UNCHANGED nonWaitVars

\* The reader goroutine closes the channel (stdout ended).
WaitClose ==
    /\ wPc = "call"
    /\ ~wClosed
    /\ wClosed' = TRUE
    /\ UNCHANGED <<wPc, wAlready, wHasNotify, wMsgs, wCtxDone, wRecv, wSeen, wRet>>
    /\ UNCHANGED nonWaitVars

\* The caller's context is cancelled or its deadline passes.
WaitCtxCancel ==
    /\ wPc = "call"
    /\ ~wCtxDone
    /\ wCtxDone' = TRUE
    /\ UNCHANGED <<wPc, wAlready, wHasNotify, wMsgs, wClosed, wRecv, wSeen, wRet>>
    /\ UNCHANGED nonWaitVars

WaitNext == WaitStep \/ WaitSend \/ WaitClose \/ WaitCtxCancel

WaitCallInit == WaitInit /\ RespOff /\ ChatOff /\ ClaudeOff /\ TurnOff /\ AuthOff
                /\ HttpOff /\ RpcOff /\ DeltaOff /\ ParserOff /\ TurnStateOff /\ ReaderOff

SpecWait == WaitCallInit /\ [][WaitNext]_vars

\* The goroutine in waitForTurnCompleted is scheduled: it is not suspended for
\* ever while a case of its select is ready.
SpecWaitFair == SpecWait /\ WF_vars(WaitStep)

\* ------------------------------------------------------------------ codexTurnState
\* The texts a reasoning delta or a task_complete event can carry.
TurnTexts == {<<>>, <<" ">>, <<"a", " ">>}

\* The texts an agent-message delta can carry.
AgentTexts == {<<>>, <<" ">>, <<"a", " ">>, <<"b">>}

\* strings.Join(parts, "\n\n")
BlankLine == <<"\n", "\n">>

RECURSIVE Join(_, _)
Join(parts, sep) ==
    IF parts = <<>> THEN <<>>
    ELSE IF Len(parts) = 1 THEN parts[1]
    ELSE parts[1] \o sep \o Join(Tail(parts), sep)

appendReasoning(s, delta) ==
    IF TrimSpace(delta) = <<>> THEN s
    ELSE [s EXCEPT !.reasoning = @ \o delta]

appendAgentDelta(s, delta) ==
    [s EXCEPT !.inAgentMsg = TRUE, !.currentAgent = @ \o delta]

\* Mutant of completeAgentMessage: the buffer is appended as it is.
completeAgentMessage_Raw(s) ==
    [s EXCEPT !.agentMsgs = IF s.currentAgent # <<>> THEN Append(@, s.currentAgent) ELSE @,
              !.currentAgent = <<>>,
              !.inAgentMsg = FALSE]

\* Mutant of completeAgentMessage: only the last message is kept.
completeAgentMessage_KeepLast(s) ==
    LET msg == TrimSpace(s.currentAgent)
    IN  [s EXCEPT !.agentMsgs = IF msg # <<>> THEN <<msg>> ELSE @,
                  !.currentAgent = <<>>,
                  !.inAgentMsg = FALSE]

completeAgentMessage(s) ==
    LET msg == TrimSpace(s.currentAgent)
    IN  [s EXCEPT !.agentMsgs = IF msg # <<>> THEN Append(@, msg) ELSE @,
                  !.currentAgent = <<>>,
                  !.inAgentMsg = FALSE]

finalize(s) ==
    IF s.inAgentMsg \/ Len(s.currentAgent) > 0 THEN completeAgentMessage(s) ELSE s

NonBlankText(t) == TrimSpace(t) # <<>>

\* Mutant of result: the most recent completed message takes precedence over
\* the task_complete value.
result_PreferDerived(s, last) ==
    LET f == finalize(s)
        n == Len(f.agentMsgs)
        own == TrimSpace(last)
        output == IF n > 0 THEN TrimSpace(f.agentMsgs[n]) ELSE own
        earlier == SelectSeq(SubSeq(f.agentMsgs, 1, n - 1), NonBlankText)
        reasoningParts == [i \in 1..Len(earlier) |-> TrimSpace(earlier[i])]
        explicit == TrimSpace(f.reasoning)
        progress == Join(reasoningParts, BlankLine)
        text == IF Len(reasoningParts) > 0
                THEN IF explicit # <<>> THEN explicit \o BlankLine \o progress
                     ELSE progress
                ELSE explicit
    IN  [Output |-> output, Reasoning |-> TrimSpace(text)]

\* Mutant of result: the last completed message is demoted to reasoning too.
result_DemoteLast(s, last) ==
    LET f == finalize(s)
        n == Len(f.agentMsgs)
        own == TrimSpace(last)
        output == IF own = <<>> /\ n > 0 THEN TrimSpace(f.agentMsgs[n]) ELSE own
        earlier == SelectSeq(f.agentMsgs, NonBlankText)
        reasoningParts == [i \in 1..Len(earlier) |-> TrimSpace(earlier[i])]
        explicit == TrimSpace(f.reasoning)
        progress == Join(reasoningParts, BlankLine)
        text == IF Len(reasoningParts) > 0
                THEN IF explicit # <<>> THEN explicit \o BlankLine \o progress
                     ELSE progress
                ELSE explicit
    IN  [Output |-> output, Reasoning |-> TrimSpace(text)]

\* The value state.result(last) returns; s is the state before the call.
result(s, last) ==
    LET f == finalize(s)
        n == Len(f.agentMsgs)
        own == TrimSpace(last)
        output == IF own = <<>> /\ n > 0 THEN TrimSpace(f.agentMsgs[n]) ELSE own
        earlier == SelectSeq(SubSeq(f.agentMsgs, 1, n - 1), NonBlankText)
        reasoningParts == [i \in 1..Len(earlier) |-> TrimSpace(earlier[i])]
        explicit == TrimSpace(f.reasoning)
        progress == Join(reasoningParts, BlankLine)
        text == IF Len(reasoningParts) > 0
                THEN IF explicit # <<>> THEN explicit \o BlankLine \o progress
                     ELSE progress
                ELSE explicit
    IN  [Output |-> output, Reasoning |-> TrimSpace(text)]

\* ------------------------------------------------------------------ CodexAdapter.runTurnStructured
\* One invocation of onEvent: the event, whether it is the end-of-turn
\* reasoning event, and whether the consumer accepted it (returned nil).
Event(kind, delta, synthetic, ok) ==
    [kind |-> kind, delta |-> delta, synthetic |-> synthetic, ok |-> ok]

ItemTypes == {"agentMessage", "reasoning"}

\* strings.EqualFold(payload.Item.Type, "agentMessage")
IsAgentMessage(itemType) == itemType = "agentMessage"

Notification(method, delta, itemType) ==
    [method |-> method, delta |-> delta, itemType |-> itemType]

TurnCompletedMsg == Notification("turn/completed", <<>>, "")

\* The notifications the app-server sends during a turn.
TurnMsgs ==
    {Notification(m, t, "") :
        m \in {"item/reasoning/summaryTextDelta", "codex/event/task_complete"},
        t \in TurnTexts}
    \cup {Notification("item/agentMessage/delta", t, "") : t \in AgentTexts}
    \cup {Notification(m, <<>>, ty) : m \in {"item/started", "item/completed"}, ty \in ItemTypes}
    \cup {TurnCompletedMsg}

\* The locals of runTurnStructured that its closures share.
TurnSt ==
    [hasConsumer |-> tHasConsumer,
     currentAgent |-> currentAgent,
     agentMsgs |-> agentMsgs,
     reasoning |-> reasoning,
     inAgentMsg |-> inAgentMsg,
     lastAgentMessage |-> lastAgentMessage,
     callbackErr |-> callbackErr,
     emittedReasoning |-> emittedReasoning,
     turnCompleted |-> turnCompleted,
     events |-> tEvents]

TurnSet(s) ==
    /\ currentAgent' = s.currentAgent
    /\ agentMsgs' = s.agentMsgs
    /\ reasoning' = s.reasoning
    /\ inAgentMsg' = s.inAgentMsg
    /\ lastAgentMessage' = s.lastAgentMessage
    /\ callbackErr' = s.callbackErr
    /\ emittedReasoning' = s.emittedReasoning
    /\ turnCompleted' = s.turnCompleted
    /\ tEvents' = s.events

\* accept: the consumer returns nil for this event.
emit(s, kind, delta, synthetic, accept) ==
    IF ~s.hasConsumer \/ s.callbackErr \/ delta = <<>> THEN s
    ELSE [s EXCEPT !.events = Append(@, Event(kind, delta, synthetic, accept)),
                   !.callbackErr = ~accept]

\* Mutant of notify: every agent-message delta is forwarded as an output event.
notify_ForwardAgentDeltas(s, msg, accept) ==
    CASE msg.method = "turn/completed" ->
            [s EXCEPT !.turnCompleted = TRUE]
      [] msg.method = "item/reasoning/summaryTextDelta" ->
            IF msg.delta # <<>>
            THEN emit([appendReasoning(s, msg.delta) EXCEPT !.emittedReasoning = TRUE],
                      "reasoning", msg.delta, FALSE, accept)
            ELSE s
      [] msg.method = "item/agentMessage/delta" ->
            IF msg.delta # <<>>
            THEN emit(appendAgentDelta(s, msg.delta), "output", msg.delta, FALSE, TRUE)
            ELSE s
      [] msg.method = "item/started" ->
            IF IsAgentMessage(msg.itemType)
            THEN [(IF Len(s.currentAgent) > 0 THEN completeAgentMessage(s) ELSE s)
                      EXCEPT !.inAgentMsg = TRUE]
            ELSE s
      [] msg.method = "item/completed" ->
            IF IsAgentMessage(msg.itemType) THEN completeAgentMessage(s) ELSE s
      [] msg.method = "codex/event/task_complete" ->
            [s EXCEPT !.lastAgentMessage = msg.delta]
      [] OTHER -> s

\* Mutant of notify: an agent-message item/started leaves the buffer as it is.
notify_NoFlush(s, msg, accept) ==
    CASE msg.method = "turn/completed" ->
            [s EXCEPT !.turnCompleted = TRUE]
      [] msg.method = "item/reasoning/summaryTextDelta" ->
            IF msg.delta # <<>>
            THEN emit([appendReasoning(s, msg.delta) EXCEPT !.emittedReasoning = TRUE],
                      "reasoning", msg.delta, FALSE, accept)
            ELSE s
      [] msg.method = "item/agentMessage/delta" ->
            IF msg.delta # <<>> THEN appendAgentDelta(s, msg.delta) ELSE s
      [] msg.method = "item/started" ->
            IF IsAgentMessage(msg.itemType) THEN [s EXCEPT !.inAgentMsg = TRUE] ELSE s
      [] msg.method = "item/completed" ->
            IF IsAgentMessage(msg.itemType) THEN completeAgentMessage(s) ELSE s
      [] msg.method = "codex/event/task_complete" ->
            [s EXCEPT !.lastAgentMessage = msg.delta]
      [] OTHER -> s

notify(s, msg, accept) ==
    CASE msg.method = "turn/completed" ->
            [s EXCEPT !.turnCompleted = TRUE]
      [] msg.method = "item/reasoning/summaryTextDelta" ->
            IF msg.delta # <<>>
            THEN emit([appendReasoning(s, msg.delta) EXCEPT !.emittedReasoning = TRUE],
                      "reasoning", msg.delta, FALSE, accept)
            ELSE s
      [] msg.method = "item/agentMessage/delta" ->
            IF msg.delta # <<>> THEN appendAgentDelta(s, msg.delta) ELSE s
      [] msg.method = "item/started" ->
            IF IsAgentMessage(msg.itemType)
            THEN [(IF Len(s.currentAgent) > 0 THEN completeAgentMessage(s) ELSE s)
                      EXCEPT !.inAgentMsg = TRUE]
            ELSE s
      [] msg.method = "item/completed" ->
            IF IsAgentMessage(msg.itemType) THEN completeAgentMessage(s) ELSE s
      [] msg.method = "codex/event/task_complete" ->
            [s EXCEPT !.lastAgentMessage = msg.delta]
      [] OTHER -> s

\* What runTurnStructured does once waitForTurnCompleted has returned nil.
TurnEnd(s, computed, res, err) == [st |-> s, computed |-> computed, result |-> res, err |-> err]

\* Mutant of finish: the end-of-turn reasoning event does not depend on
\* emittedReasoning.
finish_AlwaysSynthetic(s, acceptReasoning, acceptOutput) ==
    IF s.callbackErr THEN TurnEnd(s, FALSE, NoResult, "callback")
    ELSE
        LET res == result(s, s.lastAgentMessage)
            f == finalize(s)
            s1 == IF TrimSpace(res.Reasoning) # <<>>
                  THEN emit(f, "reasoning", res.Reasoning, TRUE, acceptReasoning)
                  ELSE f
            s2 == emit(s1, "output", res.Output, FALSE, acceptOutput)
        IN  IF res.Output = <<>> THEN TurnEnd(f, TRUE, res, "empty")
            ELSE TurnEnd(s2, TRUE, res, IF s2.callbackErr THEN "callback" ELSE "nil")

\* Mutant of finish: an empty output is not an error.
finish_NoEmptyCheck(s, acceptReasoning, acceptOutput) ==
    IF s.callbackErr THEN TurnEnd(s, FALSE, NoResult, "callback")
    ELSE
        LET res == result(s, s.lastAgentMessage)
            f == finalize(s)
            s1 == IF ~f.emittedReasoning /\ TrimSpace(res.Reasoning) # <<>>
                  THEN emit(f, "reasoning", res.Reasoning, TRUE, acceptReasoning)
                  ELSE f
            s2 == emit(s1, "output", res.Output, FALSE, acceptOutput)
        IN  TurnEnd(s2, TRUE, res, IF s2.callbackErr THEN "callback" ELSE "nil")

finish(s, acceptReasoning, acceptOutput) ==
    IF s.callbackErr THEN TurnEnd(s, FALSE, NoResult, "callback")
    ELSE
        LET res == result(s, s.lastAgentMessage)
            f == finalize(s)
            s1 == IF ~f.emittedReasoning /\ TrimSpace(res.Reasoning) # <<>>
                  THEN emit(f, "reasoning", res.Reasoning, TRUE, acceptReasoning)
                  ELSE f
            s2 == emit(s1, "output", res.Output, FALSE, acceptOutput)
        IN  IF res.Output = <<>> THEN TurnEnd(f, TRUE, res, "empty")
            ELSE TurnEnd(s2, TRUE, res, IF s2.callbackErr THEN "callback" ELSE "nil")

\* A call of runTurnStructured, with or without an event consumer.
TurnInit ==
    /\ tPc = "setup"
    /\ tHasConsumer \in BOOLEAN
    /\ tCtxDone \in BOOLEAN
    /\ tAlive = FALSE
    /\ tSpawned = 0
    /\ tCloses = 0
    /\ tN = 0
    /\ currentAgent = <<>>
    /\ agentMsgs = <<>>
    /\ reasoning = <<>>
    /\ inAgentMsg = FALSE
    /\ lastAgentMessage = <<>>
    /\ callbackErr = FALSE
    /\ emittedReasoning = FALSE
    /\ turnCompleted = FALSE
    /\ tEvents = <<>>
    /\ tItemAfterTask = FALSE
    /\ tLate = FALSE
    /\ tComputed = FALSE
    /\ tResult = NoResult
    /\ tErr = "pending"

\* Mutant of TurnReturn: the return leaves the client as it is.
TurnReturn_NoClose(err) ==
    /\ tPc' = "done"
    /\ tErr' = err
    /\ UNCHANGED <<tAlive, tCloses>>

\* The return of runTurnStructured once the client exists; the deferred
\* client.Close() runs, which kills the app-server and waits for it.
TurnReturn(err) ==
    /\ tPc' = "done"
    /\ tErr' = err
    /\ tAlive' = FALSE
    /\ tCloses' = tCloses + 1

\* The answers the consumer can give: it is asked only when emit would call it.
Answers(asked) == IF asked THEN BOOLEAN ELSE {TRUE}

\* notify(msg) calls emit, and emit calls onEvent.
NotifyEmits(msg) ==
    /\ msg.method = "item/reasoning/summaryTextDelta"
    /\ msg.delta # <<>>
    /\ tHasConsumer /\ ~callbackErr

\* A return before state.result is computed: the turn's locals go out of
\* scope with nothing read from them; what the consumer saw stays.
TurnAbandon(err) ==
    /\ TurnReturn(err)
    /\ currentAgent' = <<>>
    /\ agentMsgs' = <<>>
    /\ reasoning' = <<>>
    /\ inAgentMsg' = FALSE
    /\ lastAgentMessage' = <<>>
    /\ emittedReasoning' = FALSE
    /\ turnCompleted' = FALSE
    /\ UNCHANGED <<callbackErr, tEvents>>

\* An agent-message notification that changes the turn state.
IsAgentItem(msg) ==
    \/ msg.method = "item/agentMessage/delta" /\ msg.delta # <<>>
    \/ msg.method \in {"item/started", "item/completed"} /\ IsAgentMessage(msg.itemType)

\* notify(msg) on the locals, with the bookkeeping of what was received.
TurnNotify(msg, accept) ==
    /\ TurnSet(notify(TurnSt, msg, accept))
    /\ tN' = IF notify(TurnSt, msg, accept) = TurnSt THEN tN ELSE tN + 1
    /\ tItemAfterTask' = (tItemAfterTask \/ (IsAgentItem(msg) /\ NonBlankText(lastAgentMessage)))
    /\ tLate' = (tLate \/ callbackErr)

\* newCodexRPCClient, initialize and thread/start.  A context that is already
\* done makes cmd.Start fail; otherwise the app-server starts, and the two
\* calls succeed or one of them fails.
TurnSetup ==
    /\ tPc = "setup"
    /\ \/ /\ tCtxDone
          /\ tPc' = "done"
          /\ tErr' = "start"
          /\ UNCHANGED <<tAlive, tSpawned, tCloses>>
       \/ /\ ~tCtxDone
          /\ tSpawned' = tSpawned + 1
          /\ \/ tPc' = "turnStart" /\ tAlive' = TRUE /\ UNCHANGED <<tErr, tCloses>>
             \/ TurnReturn("rpc")
    /\ UNCHANGED <<tHasConsumer, tCtxDone, tN, currentAgent, agentMsgs, reasoning, inAgentMsg,
                   lastAgentMessage, callbackErr, emittedReasoning, turnCompleted, tEvents,
                   tItemAfterTask, tLate, tComputed, tResult>>
    /\ UNCHANGED nonTurnVars

\* client.call("turn/start", ..., notify) receives a notification.
TurnStartNotify ==
    /\ tPc = "turnStart"
    /\ tN < MaxMsgs
    /\ \E msg \in TurnMsgs : \E accept \in Answers(NotifyEmits(msg)) : TurnNotify(msg, accept)
    /\ UNCHANGED <<tPc, tHasConsumer, tCtxDone, tAlive, tSpawned, tCloses, tComputed, tResult,
                   tErr>>
    /\ UNCHANGED nonTurnVars

\* client.call("turn/start", ...) ends: the response arrives, it is an RPC
\* error, or the channel is closed.
TurnStartResponse ==
    /\ tPc = "turnStart"
    /\ \/ /\ tPc' = "wait"
          /\ UNCHANGED <<tErr, tAlive, tCloses, currentAgent, agentMsgs, reasoning, inAgentMsg,
                         lastAgentMessage, callbackErr, emittedReasoning, turnCompleted,
                         tEvents>>
       \/ TurnAbandon("rpc")
       \/ TurnAbandon("closed")
    /\ UNCHANGED <<tHasConsumer, tCtxDone, tSpawned, tN, tItemAfterTask, tLate, tComputed,
                   tResult>>
    /\ UNCHANGED nonTurnVars

\* What client.msgs offers to a receive: a message, its closure, or nothing yet.
TurnChannel ==
    {[msgs |-> <<m>>, closed |-> FALSE] : m \in TurnMsgs}
    \cup {[msgs |-> <<>>, closed |-> c] : c \in BOOLEAN}

\* waitForTurnCompleted(ctx, client.msgs, notify, turnCompleted) takes one
\* pass, and runTurnStructured runs to its return when the wait returns.
TurnWait ==
    /\ tPc = "wait"
    /\ \E ch \in TurnChannel, pick \in (IF tCtxDone THEN {"ctx", "msgs"} ELSE {"msgs"}) :
        \E accept \in Answers(ch.msgs # <<>> /\ NotifyEmits(ch.msgs[1])),
           acceptReasoning \in Answers(tHasConsumer /\ ~emittedReasoning),
           acceptOutput \in Answers(tHasConsumer) :
         LET methods == [i \in 1..Len(ch.msgs) |-> ch.msgs[i].method]
             r == waitForTurnCompleted(turnCompleted, tCtxDone, methods, ch.closed,
                                       TRUE, pick)
             s1 == IF r.seen THEN notify(TurnSt, ch.msgs[1], accept) ELSE TurnSt
             end == finish(s1, acceptReasoning, acceptOutput)
         IN  /\ r.ret # "block"
             /\ r.recv => (tN < MaxMsgs \/ ch.msgs[1] = TurnCompletedMsg)
             /\ IF r.recv
                THEN /\ tN' = IF s1 = TurnSt THEN tN ELSE tN + 1
                     /\ tItemAfterTask' = (tItemAfterTask \/ (IsAgentItem(ch.msgs[1])
                                                /\ NonBlankText(lastAgentMessage)))
                     /\ tLate' = (tLate \/ callbackErr)
                ELSE UNCHANGED <<tN, tItemAfterTask, tLate>>
             /\ CASE r.ret = "again" ->
                        /\ TurnSet(s1)
                        /\ UNCHANGED <<tPc, tAlive, tCloses, tComputed, tResult, tErr>>
                  [] r.ret = "ctx" ->
                        /\ TurnAbandon("ctx")
                        /\ UNCHANGED <<tComputed, tResult>>
                  [] r.ret = "nil" ->
                        /\ TurnSet(end.st)
                        /\ TurnReturn(end.err)
                        /\ tComputed' = end.computed
                        /\ tResult' = end.result
    /\ UNCHANGED <<tHasConsumer, tCtxDone, tSpawned>>
    /\ UNCHANGED nonTurnVars

\* The caller's context is cancelled or its deadline passes; exec kills the
\* app-server started with CommandContext.  client.call never looks at ctx: a
\* cancellation during it shows as the closed channel of TurnStartResponse, or
\* is seen by the wait that follows.
TurnCtxCancel ==
    /\ tPc = "wait"
    /\ ~tCtxDone
    /\ tCtxDone' = TRUE
    /\ tAlive' = FALSE
    /\ UNCHANGED <<tPc, tHasConsumer, tSpawned, tCloses, tN, currentAgent, agentMsgs, reasoning,
                   inAgentMsg, lastAgentMessage, callbackErr, emittedReasoning, turnCompleted,
                   tEvents, tItemAfterTask, tLate, tComputed, tResult, tErr>>
    /\ UNCHANGED nonTurnVars

TurnNext == TurnSetup \/ TurnStartNotify \/ TurnStartResponse \/ TurnWait \/ TurnCtxCancel

TurnCallInit == TurnInit /\ RespOff /\ ChatOff /\ ClaudeOff /\ WaitOff /\ AuthOff
                /\ HttpOff /\ RpcOff /\ DeltaOff /\ ParserOff /\ TurnStateOff /\ ReaderOff

SpecCodex == TurnCallInit /\ [][TurnNext]_vars

\* ------------------------------------------------------------------ the closure notify
\* No notification handled yet.
NoNotification == Notification("", <<>>, "")

ItemStarted == Notification("item/started", <<>>, "agentMessage")

ItemCompleted == Notification("item/completed", <<>>, "agentMessage")

\* The locals when turn/start is called.
NewTurn(hasConsumer) ==
    [hasConsumer |-> hasConsumer, currentAgent |-> <<>>, agentMsgs |-> <<>>,
     reasoning |-> <<>>, inAgentMsg |-> FALSE, lastAgentMessage |-> <<>>,
     callbackErr |-> FALSE, emittedReasoning |-> FALSE, turnCompleted |-> FALSE,
     events |-> <<>>]

\* The stretches of agent-message deltas after msg: an agent-message item
\* notification ends the stretch in progress.
Stretches(t, msg) ==
    IF msg.method = "item/agentMessage/delta"
    THEN [t EXCEPT !.open = @ \o msg.delta]
    ELSE IF msg \in {ItemStarted, ItemCompleted}
    THEN [t EXCEPT !.segs = IF t.open # <<>> THEN Append(@, t.open) ELSE @, !.open = <<>>]
    ELSE t

\* turn/start is called with the closure notify over fresh locals.
TurnStateInit ==
    turnState \in [pc : {"run"}, st : {NewTurn(c) : c \in BOOLEAN}, n : {0},
                   msg : {NoNotification}, segs : {<<>>}, open : {<<>>},
                   res : {NoResult}, err : {"pending"}]

\* call or waitForTurnCompleted passes a notification to notify.
TurnStateNotify ==
    /\ turnState.pc = "run"
    /\ turnState.n < MaxNotes
    /\ \E msg \in TurnMsgs \ {TurnCompletedMsg} :
         \E accept \in Answers(/\ msg.method = "item/reasoning/summaryTextDelta"
                               /\ msg.delta # <<>>
                               /\ turnState.st.hasConsumer
                               /\ ~turnState.st.callbackErr) :
           turnState' = [Stretches(turnState, msg) EXCEPT
                            !.st = notify(@, msg, accept), !.n = @ + 1, !.msg = msg]
    /\ UNCHANGED nonTurnStateVars

\* waitForTurnCompleted has returned nil: the rest of runTurnStructured.
TurnStateEnd ==
    /\ turnState.pc = "run"
    /\ \E acceptReasoning \in Answers(/\ turnState.st.hasConsumer
                                      /\ ~turnState.st.callbackErr
                                      /\ ~turnState.st.emittedReasoning),
          acceptOutput \in Answers(turnState.st.hasConsumer /\ ~turnState.st.callbackErr) :
         LET end == finish(turnState.st, acceptReasoning, acceptOutput)
             t == IF end.computed /\ turnState.open # <<>>
                  THEN [turnState EXCEPT !.segs = Append(@, turnState.open), !.open = <<>>]
                  ELSE turnState
         IN  turnState' = [t EXCEPT !.pc = "done", !.st = end.st, !.res = end.result,
                                    !.err = end.err]
    /\ UNCHANGED nonTurnStateVars

TurnStateNext == TurnStateNotify \/ TurnStateEnd

TurnStateCallInit ==
    TurnStateInit /\ RespOff /\ ChatOff /\ ClaudeOff /\ WaitOff /\ TurnOff /\ AuthOff
                  /\ HttpOff /\ RpcOff /\ DeltaOff /\ ParserOff /\ ReaderOff

SpecTurnState == TurnStateCallInit /\ [][TurnStateNext]_vars

\* ------------------------------------------------------------------ ensureSubscriptionMode
Ops == {"ListModels", "Chat", "ChatStream", "Respond", "RespondStream", "RespondStreamEvents"}

\* checkAuth.Do returns at once when the check has run.
OnceFast(done) == done

\* Under the lock, checkAuth.Do runs the body unless the check has run.
OnceNeeded(done) == ~done

\* Mutant of MutexFree: the lock excludes nobody.
MutexFree_Always(holder) == TRUE

\* The lock of checkAuth can be taken.
MutexFree(holder) == holder = 0

\* What `codex login status` can give: it fails, or prints a status that does
\* or does not name ChatGPT.
StatusOutcomes == {"failed", "chatgpt", "other"}

\* The body of the check: the value it leaves in a.authErr.  envOk: no
\* ANTHROPIC_API_KEY is set (Claude), auth.json names the chatgpt mode (Codex).
checkBody(adapter, envOk, status) ==
    IF adapter = "claude" THEN (IF envOk THEN "nil" ELSE "api-key")
    ELSE IF envOk THEN "nil"
    ELSE IF status = "failed" THEN "status-failed"
    ELSE IF status = "chatgpt" THEN "nil"
    ELSE "not-chatgpt"

\* Mutant of proceeds: the operation goes on whatever the check returned.
proceeds_Regardless(err) == TRUE

\* if err := a.ensureSubscriptionMode(); err != nil { return ..., err }
proceeds(err) == err = "nil"

\* The operation starts a backend subprocess once the check has passed; only
\* ClaudeAdapter.ListModels answers from a.models.
spawnsBackend(adapter, op) == ~(adapter = "claude" /\ op = "ListModels")

\* A new adapter (NewClaudeAdapter, NewCodexAdapter) in some environment.
AuthInit ==
    /\ uAdapter \in {"claude", "codex"}
    /\ uEnvOk \in BOOLEAN
    /\ AuthFresh

\* A goroutine calls an operation of the adapter; every operation begins with
\* the check, so which one it is shows only in AuthReturn.
AuthCall(c) ==
    /\ uPc[c] \in {"idle", "done"}
    /\ uOps < MaxOps
    /\ uOps' = uOps + 1
    /\ uPc' = [uPc EXCEPT ![c] = "do"]
    /\ uSaw' = [uSaw EXCEPT ![c] = "none"]
    /\ uLate' = [uLate EXCEPT ![c] = uDone]
    /\ uWaited' = [uWaited EXCEPT ![c] = FALSE]
    /\ uSpawnedNow' = [uSpawnedNow EXCEPT ![c] = FALSE]
    /\ UNCHANGED <<uAdapter, uEnvOk, uDone, uHolder, uAuthErr, uLast, uBodyRuns, uOutcome>>
    /\ UNCHANGED nonAuthVars

\* checkAuth.Do: the fast path.
AuthDo(c) ==
    /\ uPc[c] = "do"
    /\ uPc' = [uPc EXCEPT ![c] = IF OnceFast(uDone) THEN "checked" ELSE "lock"]
    /\ UNCHANGED <<uAdapter, uEnvOk, uDone, uHolder, uAuthErr, uLast, uSaw, uLate, uWaited,
                   uSpawnedNow, uBodyRuns, uOutcome, uOps>>
    /\ UNCHANGED nonAuthVars

\* checkAuth.Do: the slow path takes the lock, and starts the body or finds
\* the check done and releases the lock.
AuthLock(c) ==
    /\ uPc[c] = "lock"
    /\ MutexFree(uHolder)
    /\ IF OnceNeeded(uDone)
       THEN /\ uHolder' = c
            /\ uPc' = [uPc EXCEPT ![c] = "body"]
            /\ uBodyRuns' = uBodyRuns + 1
            /\ UNCHANGED uWaited
       ELSE /\ uPc' = [uPc EXCEPT ![c] = "checked"]
            /\ uWaited' = [uWaited EXCEPT ![c] = TRUE]
            /\ UNCHANGED <<uHolder, uBodyRuns>>
    /\ UNCHANGED <<uAdapter, uEnvOk, uDone, uAuthErr, uLast, uSaw, uLate, uSpawnedNow,
                   uOutcome, uOps>>
    /\ UNCHANGED nonAuthVars

\* The body ends: a.authErr is set, the check is marked done, the lock released.
AuthBodyEnd(c) ==
    /\ uPc[c] = "body"
    /\ \E status \in StatusOutcomes :
         /\ uAuthErr' = checkBody(uAdapter, uEnvOk, status)
         /\ uOutcome' = IF uOutcome = "none" THEN checkBody(uAdapter, uEnvOk, status)
                        ELSE uOutcome
    /\ uDone' = TRUE
    /\ uHolder' = IF uHolder = c THEN 0 ELSE uHolder
    /\ uPc' = [uPc EXCEPT ![c] = "checked"]
    /\ UNCHANGED <<uAdapter, uEnvOk, uLast, uSaw, uLate, uWaited, uSpawnedNow, uBodyRuns, uOps>>
    /\ UNCHANGED nonAuthVars

\* ensureSubscriptionMode returns a.authErr, and the operation returns it or
\* goes on to its backend.
AuthReturn(c) ==
    /\ uPc[c] = "checked"
    /\ uSaw' = [uSaw EXCEPT ![c] = uAuthErr]
    /\ \E op \in Ops :
         /\ uLast' = [caller |-> c, op |-> op]
         /\ uSpawnedNow' = [uSpawnedNow EXCEPT
                               ![c] = proceeds(uAuthErr) /\ spawnsBackend(uAdapter, op)]
    /\ uPc' = [uPc EXCEPT ![c] = "done"]
    /\ UNCHANGED <<uAdapter, uEnvOk, uDone, uHolder, uAuthErr, uLate, uWaited, uBodyRuns,
                   uOutcome, uOps>>
    /\ UNCHANGED nonAuthVars

\* The environment changes: the API key is set or unset, the login changes.
AuthEnvChange ==
    /\ uAdapter # "off"
    /\ uEnvOk' = ~uEnvOk
    /\ UNCHANGED <<uAdapter, uDone, uHolder, uAuthErr, uPc, uLast, uSaw, uLate, uWaited,
                   uSpawnedNow, uBodyRuns, uOutcome, uOps>>
    /\ UNCHANGED nonAuthVars

AuthNext ==
    \/ \E c \in Callers : AuthCall(c) \/ AuthDo(c) \/ AuthLock(c) \/ AuthBodyEnd(c) \/ AuthReturn(c)
    \/ AuthEnvChange

AuthCallInit == AuthInit /\ RespOff /\ ChatOff /\ ClaudeOff /\ WaitOff /\ TurnOff
                /\ HttpOff /\ RpcOff /\ DeltaOff /\ ParserOff /\ TurnStateOff /\ ReaderOff

SpecAuth == AuthCallInit /\ [][AuthNext]_vars

\* ------------------------------------------------------------------ HTTP handlers
\* Model ids of requests: none, one Claude lists, one Codex lists, one nobody lists.
ModelIds == {"", "claude-m", "codex-m", "other"}

\* ClaudeAdapter.SupportsModel: membership in the configured list; it never fails.
ClaudeSupports(model) == model = "claude-m"

\* CodexAdapter.ListModels: "ok" and the listed ids, or the failure of the
\* subscription check, of the spawn, of an RPC call, or the empty list.
CodexListOutcomes == {"ok", "auth", "spawn", "rpc", "empty"}

\* CodexAdapter.SupportsModel: the failure of ListModels, or membership.
CodexSupports(model, list) ==
    IF list # "ok" THEN [ok |-> FALSE, err |-> list]
    ELSE [ok |-> model = "codex-m", err |-> "nil"]

\* Router.AdapterForModel: Claude is asked first, then Codex.
AdapterForModel(model, list) ==
    IF ClaudeSupports(model) THEN [adapter |-> "claude", err |-> "nil"]
    ELSE LET c == CodexSupports(model, list) IN
         IF c.err # "nil" THEN [adapter |-> "none", err |-> "checking"]
         ELSE IF c.ok THEN [adapter |-> "codex", err |-> "nil"]
         ELSE [adapter |-> "none", err |-> "unsupported"]

\* What adapter.Chat or adapter.Respond returns: the text, or the failure of the
\* subscription check, of the subprocess, of an RPC call, or no output.
CallOutcomes == {"ok", "auth", "spawn", "rpc", "empty"}

\* A request arrives on /v1/chat/completions or on /v1/responses.
HttpInit ==
    http \in [pc : {"recv"},
              req : [endpoint : {"chat", "responses"}, jsonOk : BOOLEAN, model : ModelIds,
                     messages : 0..1, stream : BOOLEAN],
              codexList : CodexListOutcomes,
              adapter : {"none"},
              status : {0},
              type : {"none"},
              origin : {"none"}]

\* writeError, and a note of where the failure arose.
HttpError(status, type, origin) ==
    [http EXCEPT !.pc = "done", !.status = status, !.type = type, !.origin = origin]

\* The head of CreateChatCompletion and of CreateResponse: the body is decoded
\* and the required fields are checked.
HttpDecode ==
    /\ http.pc = "recv"
    /\ http' = IF \/ ~http.req.jsonOk
                  \/ http.req.model = ""
                  \/ http.req.endpoint = "chat" /\ http.req.messages = 0
               THEN HttpError(400, "invalid_request_error", "request")
               ELSE [http EXCEPT !.pc = "route"]
    /\ UNCHANGED nonHttpVars

\* The handler, or its streaming form, asks the router for the adapter.
HttpRoute ==
    /\ http.pc = "route"
    /\ LET r == AdapterForModel(http.req.model, http.codexList) IN
       http' = IF r.err # "nil"
               THEN HttpError(400, "invalid_request_error",
                              IF r.err = "checking" THEN "backend" ELSE "request")
               ELSE [http EXCEPT !.pc = "call", !.adapter = r.adapter]
    /\ UNCHANGED nonHttpVars

\* The adapter is called.  A non-streaming handler writes the result or a 502;
\* a streaming one needs a flushable connection, commits the 200 and reports a
\* failure of the adapter as an error event in the stream.
HttpCall ==
    /\ http.pc = "call"
    /\ \E out \in CallOutcomes, flushable \in BOOLEAN :
         /\ http.req.stream \/ flushable
         /\ http' = IF http.req.stream /\ ~flushable
                    THEN HttpError(500, "internal_error", "server")
                    ELSE IF out = "ok"
                    THEN HttpError(200, "none", "none")
                    ELSE HttpError(IF http.req.stream THEN 200 ELSE 502,
                                   "upstream_error", "backend")
    /\ UNCHANGED nonHttpVars

HttpNext == HttpDecode \/ HttpRoute \/ HttpCall

HttpCallInit ==
    HttpInit /\ RespOff /\ ChatOff /\ ClaudeOff /\ WaitOff /\ TurnOff /\ AuthOff
             /\ RpcOff /\ DeltaOff /\ ParserOff /\ TurnStateOff /\ ReaderOff

SpecHttp == HttpCallInit /\ [][HttpNext]_vars

\* ------------------------------------------------------------------ codexRPCClient
\* The calls of runTurnStructured on its client, in program order.
RpcMethods == <<"initialize", "thread/start", "turn/start">>

\* The absent error object, and the error objects a backend sends.
NoError == [code |-> 0, message |-> <<>>]

\* No message: the value of rpc.last before a call returned, and when it
\* returned because the channel was closed.
NoMsg == [id |-> 0, method |-> FALSE, error |-> NoError, result |-> "none"]

RpcErrors == {[code |-> 1, message |-> <<"x">>], [code |-> 2, message |-> <<"y">>]}

\* codexRPCMessage.  id: 0 when the line has none, -1 when it is not a JSON
\* string (a number, as in a request of the server), n for the string "n".
\* method: the line names a method.  result: "none" without one, "ok" when it
\* decodes into out, "bad" when it does not.
RpcMsgs ==
    {m \in [id : -1..Len(RpcMethods), method : BOOLEAN, error : {NoError} \cup RpcErrors,
            result : {"none", "ok", "bad"}] :
        /\ m.error # NoError => m.result = "none"
        /\ m.id <= 0 => m.error = NoError /\ m.result = "none"
        /\ m.id > 0 /\ m.method => m.error = NoError /\ m.result = "ok"}

\* What a call returns: nil, or an error with what it carries.
RpcRet(kind, method, code, text) ==
    [kind |-> kind, method |-> method, code |-> code, text |-> text]

\* c.stderr at the end of the stream, and the text used when it is blank.
StderrTexts == {<<>>, <<" ">>, <<"a", " ">>}

Unknown == <<"u">>

\* The body of the loop of call on one message: the call goes on, after
\* passing the message to onNotify or not, or returns.
callOn_AnyId(msg, id, method, hasOut, hasNotify) ==
    IF msg.id <= 0
    THEN [act |-> IF hasNotify /\ msg.id = 0 THEN "notify" ELSE "skip",
          ret |-> RpcRet("nil", method, 0, <<>>)]
    ELSE IF msg.error # NoError
    THEN [act |-> "return", ret |-> RpcRet("rpc", method, msg.error.code, msg.error.message)]
    ELSE [act |-> "return",
          ret |-> RpcRet(IF msg.result = "bad" THEN "decode" ELSE "nil", method, 0, <<>>)]

callOn(msg, id, method, hasOut, hasNotify) ==
    IF msg.id = 0
    THEN [act |-> IF hasNotify THEN "notify" ELSE "skip", ret |-> RpcRet("nil", method, 0, <<>>)]
    ELSE IF msg.id = -1
    THEN [act |-> "skip", ret |-> RpcRet("nil", method, 0, <<>>)]
    ELSE IF msg.id # id
    THEN [act |-> IF hasNotify /\ msg.method THEN "notify" ELSE "skip",
          ret |-> RpcRet("nil", method, 0, <<>>)]
    ELSE IF msg.error # NoError
    THEN [act |-> "return", ret |-> RpcRet("rpc", method, msg.error.code, msg.error.message)]
    ELSE IF ~hasOut \/ msg.result = "none"
    THEN [act |-> "return", ret |-> RpcRet("nil", method, 0, <<>>)]
    ELSE [act |-> "return",
          ret |-> RpcRet(IF msg.result = "bad" THEN "decode" ELSE "nil", method, 0, <<>>)]

\* What call returns when the channel is closed and empty.
streamEnded_Nil(method, stderr) == RpcRet("nil", method, 0, <<>>)

streamEnded(method, stderr) ==
    LET t == TrimSpace(stderr) IN
    RpcRet("ended", method, 0, IF t = <<>> THEN Unknown ELSE t)

\* runTurnStructured is called: no client yet.
RpcInit ==
    rpc = [pc |-> "new", step |-> 0, id |-> 0, sent |-> <<>>, msgs |-> <<>>,
           closed |-> FALSE, stderr |-> <<>>, rets |-> <<>>, last |-> NoMsg,
           seen |-> <<>>, notified |-> <<>>, clients |-> 0, err |-> "pending"]

\* newCodexRPCClient: the app-server is started, or the call returns.
RpcSpawn ==
    /\ rpc.pc = "new"
    /\ \E started \in BOOLEAN :
         rpc' = IF started
                THEN [rpc EXCEPT !.pc = "send", !.step = 1, !.clients = @ + 1]
                ELSE [rpc EXCEPT !.pc = "done", !.err = "spawn"]
    /\ UNCHANGED nonRpcVars

\* The head of call: the next id is taken and the request is written and
\* flushed, or the write fails and the call returns.
RpcSend ==
    /\ rpc.pc = "send"
    /\ \E wrote \in BOOLEAN :
         rpc' = IF wrote
                THEN [rpc EXCEPT !.id = @ + 1, !.last = NoMsg, !.pc = "recv",
                                 !.seen = <<>>, !.notified = <<>>,
                                 !.sent = Append(@, [id |-> rpc.id + 1,
                                                     method |-> RpcMethods[rpc.step]])]
                ELSE [rpc EXCEPT !.id = @ + 1, !.last = NoMsg, !.pc = "done",
                                 !.seen = <<>>, !.notified = <<>>, !.err = "call",
                                 !.rets = Append(@, RpcRet("write", RpcMethods[rpc.step],
                                                          0, <<>>))]
    /\ UNCHANGED nonRpcVars

\* Mutant of RpcReturned: the error of a call is ignored and the next request
\* is sent.
RpcReturned_IgnoreError(c, ret, last) ==
    LET r == [c EXCEPT !.rets = Append(@, ret), !.last = last] IN
    IF c.step = Len(RpcMethods)
    THEN {[r EXCEPT !.pc = "done", !.err = "nil"]}
    ELSE {[r EXCEPT !.pc = "send", !.step = @ + 1]}

\* The call of client c returned ret on the message last: what
\* runTurnStructured does next.  It returns the error of the call, or the
\* error of an empty thread id, or goes on to the next call; after turn/start
\* it goes on to wait for the end of the turn.
RpcReturned(c, ret, last) ==
    LET r == [c EXCEPT !.rets = Append(@, ret), !.last = last] IN
    IF ret.kind # "nil"
    THEN {[r EXCEPT !.pc = "done", !.err = "call"]}
    ELSE IF c.step = Len(RpcMethods)
    THEN {[r EXCEPT !.pc = "done", !.err = "nil"]}
    ELSE {IF emptyId THEN [r EXCEPT !.pc = "done", !.err = "emptyThread"]
                     ELSE [r EXCEPT !.pc = "send", !.step = @ + 1] :
             emptyId \in (IF c.step # 2 THEN {FALSE}
                          ELSE IF last.result = "none" THEN {TRUE}
                          ELSE BOOLEAN)}

\* One iteration of the loop of call: the next message is received, or the
\* channel is found closed and empty.
RpcRecv ==
    /\ rpc.pc = "recv"
    /\ IF rpc.msgs # <<>>
       THEN LET msg == Head(rpc.msgs)
                rest == [rpc EXCEPT !.msgs = Tail(@)]
                r == callOn(msg, rpc.id, RpcMethods[rpc.step], TRUE,
                            rpc.step = Len(RpcMethods))
            IN  IF r.act = "return"
                THEN rpc' \in RpcReturned(rest, r.ret, msg)
                ELSE rpc' = [rest EXCEPT !.seen = Append(@, msg),
                                         !.notified = IF r.act = "notify"
                                                      THEN Append(@, msg) ELSE @]
       ELSE /\ rpc.closed
            /\ rpc' \in RpcReturned(rpc, streamEnded(RpcMethods[rpc.step], rpc.stderr), NoMsg)
    /\ UNCHANGED nonRpcVars

\* The reader goroutine parsed a line of stdout and put it on the channel.
\* The messages the pending call has gone past count against the bound.
RpcRead ==
    /\ rpc.pc \in {"send", "recv"}
    /\ ~rpc.closed
    /\ Len(rpc.seen) + Len(rpc.msgs) < MaxRpcQueue
    /\ \E m \in RpcMsgs : rpc' = [rpc EXCEPT !.msgs = Append(@, m)]
    /\ UNCHANGED nonRpcVars

\* stdout of the app-server ended: the reader closes the channel.
RpcEof ==
    /\ rpc.pc \in {"send", "recv"}
    /\ ~rpc.closed
    /\ \E text \in StderrTexts : rpc' = [rpc EXCEPT !.closed = TRUE, !.stderr = text]
    /\ UNCHANGED nonRpcVars

RpcNext == RpcSpawn \/ RpcSend \/ RpcRecv \/ RpcRead \/ RpcEof

RpcCallInit ==
    RpcInit /\ RespOff /\ ChatOff /\ ClaudeOff /\ WaitOff /\ TurnOff /\ AuthOff
            /\ HttpOff /\ DeltaOff /\ ParserOff /\ TurnStateOff /\ ReaderOff

SpecRpc == RpcCallInit /\ [][RpcNext]_vars

\* The call in progress is scheduled: its loop is not suspended for ever while
\* it can receive or can see the channel closed.
SpecRpcFair == SpecRpc /\ WF_vars(RpcRecv)

\* ------------------------------------------------------------------ the reader goroutine
\* The lines of stdout: two that parse into a codexRPCMessage, one that does not.
ReaderLines == {"x", "y", "bad"}

\* json.Unmarshal(scanner.Bytes(), &msg) == nil
IsJson(line) == line # "bad"

\* cap(c.msgs): 256 in the code, scaled to the bound of the model.
Capacity == MaxRpcQueue

\* newCodexRPCClient has returned: the subprocess runs, the reader is in
\* scanner.Scan, runTurnStructured has deferred Close.
ReaderInit ==
    reader = [pc |-> "scan", hold |-> "none", msgs |-> <<>>, closes |-> 0, alive |-> TRUE,
              lines |-> <<>>, recv |-> <<>>, user |-> "call", closeCalls |-> 0]

\* scanner.Scan returns true with a line: one that does not parse is dropped,
\* one that parses is to be sent.  Lines written before the subprocess died
\* can still be scanned after it.
ReaderScan ==
    /\ reader.pc = "scan"
    /\ Len(reader.lines) < MaxRead
    /\ \E line \in ReaderLines :
         reader' = [reader EXCEPT !.lines = Append(@, line),
                                  !.pc = IF IsJson(line) THEN "send" ELSE "scan",
                                  !.hold = IF IsJson(line) THEN line ELSE "none"]
    /\ UNCHANGED nonReaderVars

\* Mutant of ReaderSend: the reader does not wait for room in the channel.
ReaderSend_NoBlock ==
    /\ reader.pc = "send"
    /\ reader' = [reader EXCEPT !.msgs = Append(@, reader.hold), !.hold = "none",
                                !.pc = "scan"]
    /\ UNCHANGED nonReaderVars

\* client.msgs <- msg: the send goes through when the channel has room.
ReaderSend ==
    /\ reader.pc = "send"
    /\ Len(reader.msgs) < Capacity
    /\ reader' = [reader EXCEPT !.msgs = Append(@, reader.hold), !.hold = "none",
                                !.pc = "scan"]
    /\ UNCHANGED nonReaderVars

\* scanner.Scan returns false: stdout has ended, the subprocess having exited
\* or been killed; the loop ends and the deferred close(client.msgs) runs.
ReaderEof ==
    /\ reader.pc = "scan"
    /\ ~reader.alive
    /\ reader' = [reader EXCEPT !.pc = "exit", !.closes = @ + 1]
    /\ UNCHANGED nonReaderVars

\* The subprocess exits of its own accord.
ProcExit ==
    /\ reader.alive
    /\ reader' = [reader EXCEPT !.alive = FALSE]
    /\ UNCHANGED nonReaderVars

\* call or waitForTurnCompleted receives a message from c.msgs.
UserRecv ==
    /\ reader.user = "call"
    /\ reader.msgs # <<>>
    /\ reader' = [reader EXCEPT !.recv = Append(@, Head(reader.msgs)), !.msgs = Tail(@)]
    /\ UNCHANGED nonReaderVars

\* runTurnStructured returns, on any of its paths, and the deferred Close
\* runs: the subprocess is killed and waited for.  Nothing receives from
\* c.msgs afterwards.
UserReturn ==
    /\ reader.user = "call"
    /\ reader' = [reader EXCEPT !.user = "returned", !.closeCalls = @ + 1,
                                !.alive = FALSE]
    /\ UNCHANGED nonReaderVars

ReaderStep == ReaderScan \/ ReaderSend \/ ReaderEof

ReaderNext == ReaderStep \/ ProcExit \/ UserRecv \/ UserReturn

ReaderCallInit ==
    ReaderInit /\ RespOff /\ ChatOff /\ ClaudeOff /\ WaitOff /\ TurnOff /\ AuthOff
               /\ HttpOff /\ RpcOff /\ DeltaOff /\ ParserOff /\ TurnStateOff

SpecReader == ReaderCallInit /\ [][ReaderNext]_vars

\* The goroutines are scheduled: the reader is not suspended for ever while
\* it can go on, nor is the goroutine in a call while c.msgs holds a message.
SpecReaderFair == SpecReader /\ WF_vars(ReaderStep) /\ WF_vars(UserRecv)

\* ------------------------------------------------------------------ Codex delta surfaces
\* Mutant of streamDelta: the output is passed to the callback piece by piece.
streamDelta_Pieces(hasCb, err, output, cbOk) ==
    IF err # "nil"
    THEN [calls |-> <<>>, ret |-> err]
    ELSE IF hasCb /\ TrimSpace(output) # <<>>
    THEN [calls |-> [i \in 1..Len(output) |-> [delta |-> <<output[i]>>, ok |-> cbOk]],
          ret |-> IF cbOk THEN "nil" ELSE "cb"]
    ELSE [calls |-> <<>>, ret |-> "nil"]

\* ChatStream and RespondStream after runTurnStructured returned err and the
\* result with this output: the invocations of onDelta and the value returned.
streamDelta(hasCb, err, output, cbOk) ==
    IF err # "nil"
    THEN [calls |-> <<>>, ret |-> err]
    ELSE IF hasCb /\ TrimSpace(output) # <<>>
    THEN [calls |-> <<[delta |-> output, ok |-> cbOk]>>, ret |-> IF cbOk THEN "nil" ELSE "cb"]
    ELSE [calls |-> <<>>, ret |-> "nil"]

\* ChatStream or RespondStream is called (the two have the same body), the
\* subscription check has passed: runTurnStructured is called without a
\* consumer of events.
DeltaInit ==
    /\ codexDelta \in [pc : {"turn"}, hasCb : BOOLEAN, calls : {<<>>}, ret : {"pending"}]
    /\ TurnInit
    /\ ~tHasConsumer

\* runTurnStructured has returned: the rest of the method.
DeltaReturn ==
    /\ codexDelta.pc = "turn"
    /\ tPc = "done"
    /\ \E cbOk \in Answers(codexDelta.hasCb /\ tErr = "nil") :
         LET r == streamDelta(codexDelta.hasCb, tErr, tResult.Output, cbOk) IN
         codexDelta' = [codexDelta EXCEPT !.pc = "done", !.calls = @ \o r.calls,
                                          !.ret = r.ret]
    /\ UNCHANGED nonDeltaVars

DeltaNext == TurnNext \/ DeltaReturn

DeltaCallInit ==
    DeltaInit /\ RespOff /\ ChatOff /\ ClaudeOff /\ WaitOff /\ AuthOff /\ HttpOff
              /\ RpcOff /\ ParserOff /\ TurnStateOff /\ ReaderOff

SpecCodexDelta == DeltaCallInit /\ [][DeltaNext]_vars

\* ------------------------------------------------------------------ extractClaudeDelta
\* The texts of the fields of a line: one text, an extension of it, and one
\* that neither extends nor is extended by them.
ParserTexts == {<<>>, <<"a">>, <<"a", "b">>, <<"b">>}

\* The positions of the content array; position i is index i - 1 of the code.
Indexes == 1..MaxContent

\* A line that is not JSON: every field absent.
NotJson == [json |-> FALSE, type |-> "", text |-> <<>>, thinking |-> <<>>,
            eventText |-> <<>>, content |-> [i \in Indexes |-> <<>>]]

\* lastByIndex when a call starts: nothing recorded.
NoTexts == [i \in Indexes |-> <<>>]

\* strings.HasPrefix and strings.TrimPrefix.
HasPrefix(s, p) == Len(p) <= Len(s) /\ SubSeq(s, 1, Len(p)) = p

TrimPrefix(s, p) == IF HasPrefix(s, p) THEN SubSeq(s, Len(p) + 1, Len(s)) ELSE s

\* The lines of the stream.  type: the "type" field; text: delta.text, or
\* content_block.text of a content_block_start; thinking: delta.thinking;
\* eventText: event.delta.text of a stream_event that wraps a
\* content_block_delta; content: the texts of message.content, <<>> where an
\* entry has none.
ParserLines ==
    {NotJson}
    \cup {[NotJson EXCEPT !.json = TRUE, !.type = t, !.text = x] :
             t \in {"content_block_delta", "content_block_start", "message_delta"},
             x \in ParserTexts}
    \cup {[NotJson EXCEPT !.json = TRUE, !.type = "content_block_delta", !.thinking = x] :
             x \in ParserTexts \ {<<>>}}
    \cup {[NotJson EXCEPT !.json = TRUE, !.type = "stream_event", !.eventText = x] :
             x \in ParserTexts \ {<<>>}}
    \cup {[NotJson EXCEPT !.json = TRUE, !.type = t, !.content = c] :
             t \in {"assistant", "message_delta"}, c \in [Indexes -> ParserTexts]}

\* What extractClaudeDelta returns, the map it leaves, and the number of
\* entries of message.content it has examined.
Parsed(delta, ok, last, upto) == [delta |-> delta, ok |-> ok, last |-> last, upto |-> upto]

\* Mutant of scanContent: an extension is emitted as the whole text.
RECURSIVE scanContent_Whole(_, _, _)
scanContent_Whole(content, last, i) ==
    IF i > MaxContent THEN Parsed(<<>>, FALSE, last, MaxContent)
    ELSE LET full == content[i]
             prev == last[i]
         IN  IF full = <<>> THEN scanContent_Whole(content, last, i + 1)
             ELSE IF HasPrefix(full, prev)
             THEN IF TrimPrefix(full, prev) # <<>>
                  THEN Parsed(full, TRUE, [last EXCEPT ![i] = full], i)
                  ELSE scanContent_Whole(content, [last EXCEPT ![i] = full], i + 1)
             ELSE scanContent_Whole(content, last, i + 1)

\* The loop over message.content from entry i on.  An entry without text is
\* skipped; a text that extends the recorded one is recorded and its suffix,
\* when not empty, returned; the branch for a text that does not extend the
\* recorded one is guarded by prev == "", which no such text satisfies, so the
\* loop goes on to the next entry.
RECURSIVE scanContent(_, _, _)
scanContent(content, last, i) ==
    IF i > MaxContent THEN Parsed(<<>>, FALSE, last, MaxContent)
    ELSE LET full == content[i]
             prev == last[i]
         IN  IF full = <<>> THEN scanContent(content, last, i + 1)
             ELSE IF HasPrefix(full, prev)
             THEN IF TrimPrefix(full, prev) # <<>>
                  THEN Parsed(TrimPrefix(full, prev), TRUE, [last EXCEPT ![i] = full], i)
                  ELSE scanContent(content, [last EXCEPT ![i] = full], i + 1)
             ELSE IF prev = <<>>
             THEN Parsed(full, TRUE, [last EXCEPT ![i] = full], i)
             ELSE scanContent(content, last, i + 1)

\* extractClaudeDelta(line, lastByIndex).
extractClaudeDelta(line, last) ==
    IF ~line.json THEN Parsed(<<>>, FALSE, last, 0)
    ELSE IF /\ line.type \in {"content_block_delta", "content_block_start", "message_delta"}
            /\ line.text # <<>>
    THEN Parsed(line.text, TRUE, last, 0)
    ELSE scanContent(line.content, last, 1)

\* The kind of the event RespondStreamEvents makes of a delta that
\* runClaudeStream passes on: always the output kind.
forwardedKind(delta, ok) == IF ok /\ delta # <<>> THEN "output" ELSE "none"

\* runClaudeStream has started the CLI: nothing recorded, nothing parsed.
ParserInit ==
    parser = [pc |-> "scan", parsed |-> FALSE, lastByIndex |-> NoTexts,
              last |-> [line |-> NotJson, before |-> NoTexts, delta |-> <<>>,
                        ok |-> FALSE, kind |-> "none"],
              full |-> NoTexts, ext |-> [i \in Indexes |-> TRUE], concat |-> NoTexts]

\* One iteration of the scan loop on a non-blank line.
ParseLine ==
    /\ parser.pc = "scan"
    /\ \E line \in ParserLines :
         LET r == extractClaudeDelta(line, parser.lastByIndex)
             examined == {i \in Indexes : i <= r.upto /\ line.content[i] # <<>>}
         IN  parser' =
               [parser EXCEPT
                  !.parsed = TRUE,
                  !.lastByIndex = r.last,
                  !.last = [line |-> line, before |-> parser.lastByIndex,
                            delta |-> r.delta, ok |-> r.ok,
                            kind |-> forwardedKind(r.delta, r.ok)],
                  !.full = [i \in Indexes |->
                              IF i \in examined THEN line.content[i] ELSE @[i]],
                  !.ext = [i \in Indexes |->
                             @[i] /\ (i \in examined =>
                                         HasPrefix(line.content[i], parser.full[i]))],
                  !.concat = [i \in Indexes |->
                                IF r.ok /\ r.upto = i THEN @[i] \o r.delta ELSE @[i]]]
    /\ UNCHANGED nonParserVars

\* The stream ends and the map is dropped with the call.
ParseEnd ==
    /\ parser.pc = "scan"
    /\ parser.parsed
    /\ parser' = [parser EXCEPT !.pc = "done"]
    /\ UNCHANGED nonParserVars

ParserNext == ParseLine \/ ParseEnd

ParserCallInit ==
    ParserInit /\ RespOff /\ ChatOff /\ ClaudeOff /\ WaitOff /\ TurnOff /\ AuthOff
               /\ HttpOff /\ RpcOff /\ DeltaOff /\ TurnStateOff /\ ReaderOff

SpecParser == ParserCallInit /\ [][ParserNext]_vars

\* ------------------------------------------------------------------ backend runs
\* One call on a backend: a streaming or a non-streaming call on the
\* streaming-text adapter, or a turn on the persistent-session backend up to the
\* answer to turn/start.
BackendInit == ClaudeCallInit \/ ClaudeTextCallInit \/ RpcCallInit

BackendNext == ClaudeNext \/ ClaudeText \/ RpcNext

SpecBackend == BackendInit /\ [][BackendNext]_vars

\* ------------------------------------------------------------------ the server
\* One streaming request arrives, on /v1/responses or on /v1/chat/completions.
ServerInit ==
    /\ (RespInit /\ ChatOff) \/ (RespOff /\ ChatInit)
    /\ ClaudeOff
    /\ ProxyOff

ServerNext ==
    \/ RespReject
    \/ RespStart
    \/ RespOnEvent
    \/ RespComplete
    \/ RespFail
    \/ ChatReject
    \/ ChatStart
    \/ ChatOnDelta
    \/ ChatComplete
    \/ ChatFail

SpecServer == ServerInit /\ [][ServerNext]_vars

\* ------------------------------------------------------------------ claims: SSE emitters
ItemIDs == {reasoningItemID, messageItemID}

RespSucceeded == rPc = "done" /\ ~rErr

ChatSucceeded == cPc = "done" /\ ~cErr

\* Positions of the wire whose event has one of the given types and item.
Pos(types, item) ==
    {i \in 1..Len(rWire) : rWire[i].type \in types /\ rWire[i].item = item}

\* The texts of the events of the given type and item, in wire order.
TextsOf(type, item) ==
    [i \in 1..Len(SelectSeq(rWire, LAMBDA e : e.type = type /\ e.item = item)) |->
        SelectSeq(rWire, LAMBDA e : e.type = type /\ e.item = item)[i].text]

\* C1: once an event referencing an item id was written with an output_index,
\* every later event referencing the same item id carries the same output_index.
C1_IndexStablePerItem ==
    \A i, j \in 1..Len(rWire) :
        (i < j /\ rWire[i].item \in ItemIDs /\ rWire[i].item = rWire[j].item)
            => rWire[i].idx = rWire[j].idx

Unnumbered == {"response.created", "response.completed", "error", "[DONE]"}

Numbered == SelectSeq(rWire, LAMBDA e : e.type \notin Unnumbered)

\* C9: the sequence numbers of the numbered events are 1, 2, 3, ... in emission
\* order, and the counter is one past the last number handed out.
C9_SequenceNumbers ==
    /\ \A i \in 1..Len(Numbered) : Numbered[i].seq = i
    /\ seq = Len(Numbered) + 1

\* A completed reply in which reasoning and output deltas were interleaved.
C9_Witness ==
    /\ RespSucceeded
    /\ Len(Numbered) >= 12
    /\ \E i, j, k \in 1..Len(rWire) :
          /\ i < j /\ j < k
          /\ rWire[i].type = "response.reasoning_text.delta"
          /\ rWire[j].type = "response.output_text.delta"
          /\ rWire[k].type = "response.reasoning_text.delta"

ReasoningDoneTypes ==
    <<"response.reasoning_summary_text.done", "response.reasoning_summary_part.done",
      "response.reasoning_text.done", "response.output_item.done">>

MessageDoneTypes == <<"response.output_text.done", "response.output_item.done">>

\* The (type, item) pairs a successful reply ends with.
ExpectedTail(withReasoning) ==
    (IF withReasoning
     THEN [i \in 1..4 |-> <<ReasoningDoneTypes[i], reasoningItemID>>]
     ELSE <<>>)
    \o [i \in 1..2 |-> <<MessageDoneTypes[i], messageItemID>>]
    \o << <<"response.completed", "none">>, <<"[DONE]", "none">> >>

DeltaTypes ==
    {"response.reasoning_summary_text.delta", "response.reasoning_text.delta",
     "response.output_text.delta"}

StartTypes ==
    {"response.created", "response.output_item.added",
     "response.reasoning_summary_part.added"}

\* C7: in a successful reply response.created is first and written once; the
\* output_item.added of an item is written at most once and before every other
\* event of that item; the reply ends with the reasoning done events (exactly
\* when reasoning occurred), then the message done events, then
\* response.completed, then the terminator, and no done event is written
\* earlier; the message item is announced even without any output delta.
C7_ResponseEventOrder ==
    RespSucceeded =>
        LET n == Len(rWire)
            withReasoning == \E i \in 1..n : rWire[i].item = reasoningItemID
            tail == ExpectedTail(withReasoning)
            m == Len(tail)
        IN  /\ n > m
            /\ rWire[1].type = "response.created"
            /\ \A i \in 2..n : rWire[i].type # "response.created"
            /\ \A it \in ItemIDs :
                  /\ Cardinality(Pos({"response.output_item.added"}, it)) <= 1
                  /\ \A i \in 1..n :
                        (rWire[i].item = it /\ rWire[i].type # "response.output_item.added")
                            => \E j \in 1..(i - 1) :
                                  j \in Pos({"response.output_item.added"}, it)
            /\ Pos({"response.output_item.added"}, messageItemID) # {}
            /\ withReasoning = reasoningStarted
            /\ \A i \in 1..m :
                  <<rWire[n - m + i].type, rWire[n - m + i].item>> = tail[i]
            /\ \A i \in 1..(n - m) : rWire[i].type \in StartTypes \cup DeltaTypes

\* A successful reply with reasoning and no output delta at all.
C7_Witness ==
    /\ RespSucceeded
    /\ reasoningStarted
    /\ outputText = <<>>
    /\ Len(rFed) = MaxEvents

\* C8: in a successful reply the text of output_text.done, of the message
\* output_item.done and of the message item of response.completed equals the
\* concatenation of the output deltas written, and the text of the reasoning
\* done events and of the reasoning item of response.completed equals the
\* concatenation of the reasoning deltas written.
C8_TerminalTextComplete ==
    RespSucceeded =>
        LET outFull == Concat(TextsOf("response.output_text.delta", messageItemID))
            rsnFull == Concat(TextsOf("response.reasoning_summary_text.delta",
                                      reasoningItemID))
            completed == rWire[Len(rWire) - 1]
        IN  /\ rsnFull = Concat(TextsOf("response.reasoning_text.delta",
                                        reasoningItemID))
            /\ \A i \in 1..Len(rWire) :
                  /\ (rWire[i].type \in {MessageDoneTypes[1], MessageDoneTypes[2]}
                      /\ rWire[i].item = messageItemID) => rWire[i].text = outFull
                  /\ (rWire[i].type \in {ReasoningDoneTypes[k] : k \in 1..4}
                      /\ rWire[i].item = reasoningItemID) => rWire[i].text = rsnFull
            /\ completed.type = "response.completed"
            /\ \A k \in 1..Len(completed.output) :
                  completed.output[k].text =
                      (IF completed.output[k].item = messageItemID
                       THEN outFull ELSE rsnFull)
            /\ \E k \in 1..Len(completed.output) :
                  completed.output[k].item = messageItemID

\* A successful reply with at least two output deltas and two reasoning deltas.
C8_Witness ==
    /\ RespSucceeded
    /\ Len(TextsOf("response.output_text.delta", messageItemID)) >= 2
    /\ Len(TextsOf("response.reasoning_text.delta", reasoningItemID)) >= 1
    /\ Len(outputText) >= 3

\* The kinds of the chunks of a wire, in order.
KindsOf(wire) == [i \in 1..Len(wire) |-> wire[i].kind]

TypesOf(wire) == [i \in 1..Len(wire) |-> wire[i].type]

\* The wire holds one error event, directly followed by the terminator, last.
EndsWithErrorDone(names, err, done) ==
    LET n == Len(names)
    IN  /\ n >= 2
        /\ names[n - 1] = err
        /\ names[n] = done
        /\ \A i \in 1..(n - 2) : names[i] \notin {err, done}

\* The wire holds the terminator once, as its last event, and no error event.
EndsWithDoneOnly(names, err, done) ==
    LET n == Len(names)
    IN  /\ n >= 1
        /\ names[n] = done
        /\ \A i \in 1..(n - 1) : names[i] \notin {err, done}

NoErrorNoDone(names, err, done) == \A i \in 1..Len(names) : names[i] \notin {err, done}

WireEnding(pc, failed, names, err, done) ==
    /\ (pc = "done" /\ failed) => EndsWithErrorDone(names, err, done)
    /\ (pc = "done" /\ ~failed) => EndsWithDoneOnly(names, err, done)
    /\ pc # "done" => NoErrorNoDone(names, err, done)

\* C4: once a stream has started, a failed adapter call makes the handler write
\* exactly one error event, directly followed by the terminator, and nothing
\* after it; a successful one writes no error event; in both cases the
\* terminator is written exactly once and last, and never before the adapter
\* call has returned.
C4_ErrorThenTerminator ==
    /\ WireEnding(rPc, rErr, TypesOf(rWire), "error", "[DONE]")
    /\ WireEnding(cPc, cErr, KindsOf(cWire), "error", "[DONE]")

\* The adapter failed in the middle of a stream that had already carried deltas.
C4_Witness ==
    \/ rPc = "done" /\ rErr /\ Len(rWire) >= 6 /\ reasoningStarted /\ messageStarted
    \/ cPc = "done" /\ cErr /\ Len(cWire) >= 5

\* The contents of the content chunks of the chat wire, in order.
ContentOf(wire) ==
    [i \in 1..Len(SelectSeq(wire, LAMBDA c : c.kind = "content")) |->
        SelectSeq(wire, LAMBDA c : c.kind = "content")[i].content]

\* C5: the concatenation of the delta.content fields of the chunks written
\* equals the concatenation of the deltas the adapter produced, whitespace-only
\* deltas included.
C5_ContentRoundTrip == Concat(ContentOf(cWire)) = Concat(cFed)

NonBlank(deltas) == SelectSeq(deltas, LAMBDA d : TrimSpace(d) # <<>>)

ClaudeDone == aPc = "done"

\* The streaming run failed or ended blank, and the plain-text run was made.
FellBack == ClaudeDone /\ Len(aRuns) = 2

Synthetic == SelectSeq(aCalls, LAMBDA c : c.synthetic)

PlainText == TrimSpace(aPlain.out)

\* The case of the fallback policy: the streaming run failed or was blank, it
\* emitted no delta, and the plain-text run succeeded with a non-blank text.
FallbackCase == FellBack /\ ~aEmitted /\ aPlain.ok /\ PlainText # <<>> /\ aHasCb

\* C2 as stated: in the fallback case the consumer receives exactly one
\* synthetic delta equal to the plain-text result and the returned text equals
\* it; when deltas were already emitted no synthetic delta is delivered.
C2_FallbackAsStated ==
    /\ FallbackCase =>
          /\ Len(aCalls) = 1
          /\ aCalls[1].synthetic /\ aCalls[1].delta = PlainText
          /\ aRet = Ret("nil", PlainText)
    /\ (ClaudeDone /\ aEmitted) => Synthetic = <<>>

\* C2 amended: in the fallback case the consumer receives exactly one synthetic
\* delta equal to the plain-text result; the returned text equals it if the
\* consumer accepts that delta, and the call returns the consumer's error if it
\* rejects it; when deltas were already emitted no synthetic delta is delivered.
C2_FallbackSyntheticDelta ==
    /\ FallbackCase =>
          /\ Len(aCalls) = 1
          /\ aCalls[1].synthetic /\ aCalls[1].delta = PlainText
          /\ aRet = (IF aCalls[1].ok THEN Ret("nil", PlainText) ELSE Ret("cb", <<>>))
    /\ (ClaudeDone /\ aEmitted) => Synthetic = <<>>

\* A streaming run that scanned lines without a delta and then failed, rescued
\* by a plain-text run whose output had to be trimmed.
C2_Witness ==
    /\ FallbackCase
    /\ aStreamErr = "run"
    /\ aLines >= 1
    /\ aCalls[1].ok
    /\ Len(PlainText) < Len(aPlain.out)

\* A plain-text call (Chat / Respond) on the same request would succeed with a
\* non-blank text.
PlainWouldSucceed == ~aAuthErr /\ aPlain.ok /\ PlainText # <<>>

CallSucceededNonEmpty == aRet.err = "nil" /\ aRet.text # <<>>

SyntheticRejected == \E i \in 1..Len(aCalls) : aCalls[i].synthetic /\ ~aCalls[i].ok

\* C3 as stated: for every outcome of the streaming run and of the consumer, a
\* finished call has failed or returned an empty text only if the plain-text
\* run fails or is blank.
C3_NeverFailsAsStated == (ClaudeDone /\ PlainWouldSucceed) => CallSucceededNonEmpty

\* C3 amended: a finished call has failed or returned an empty text only if the
\* plain-text run fails or is blank, or the consumer rejected the synthetic
\* fallback delta, in which case the call returns the consumer's error.
C3_NeverFailsUnlessConsumerRejects ==
    (ClaudeDone /\ PlainWouldSucceed) =>
        IF SyntheticRejected THEN aRet = Ret("cb", <<>>) ELSE CallSucceededNonEmpty

\* A streaming run that failed after deltas were emitted, rescued by the
\* plain-text run.
C3_Witness ==
    /\ ClaudeDone
    /\ aStreamErr # "none"
    /\ aEmitted
    /\ PlainWouldSucceed
    /\ CallSucceededNonEmpty

\* ------------------------------------------------------------------ claims: waitForTurnCompleted
\* C11: a call with alreadyCompleted = true receives no message from the
\* source, invokes no observer and returns nothing but success, whatever the
\* source holds and whatever the state of the context.
C11_AlreadyCompletedConsumesNothing ==
    wAlready =>
        /\ wRecv = <<>>
        /\ wSeen = <<>>
        /\ wRet \in {"pending", "nil"}

\* The call returned while the open source held messages and the context was done.
C11_Witness ==
    /\ wPc = "done"
    /\ wAlready
    /\ wHasNotify
    /\ Len(wMsgs) >= 2
    /\ ~wClosed
    /\ wCtxDone
    /\ wRet = "nil"

\* The messages the source yielded: those received, then those still buffered.
WaitStream == wRecv \o wMsgs

FirstCompleted(stream) ==
    CHOOSE n \in 1..Len(stream) :
        /\ stream[n] = "turn/completed"
        /\ \A i \in 1..(n - 1) : stream[i] # "turn/completed"

\* C12: a call with alreadyCompleted = false whose context is not done, on a
\* source whose N-th message is the (first) turn/completed, has on return
\* received exactly the first N messages, passed all N to the observer in
\* arrival order, the completion message included, and returned success.
C12_ObserverSeesAllUntilCompleted ==
    (wPc = "done" /\ ~wAlready /\ ~wCtxDone
     /\ \E i \in 1..Len(WaitStream) : WaitStream[i] = "turn/completed") =>
        /\ wRet = "nil"
        /\ wRecv = SubSeq(WaitStream, 1, FirstCompleted(WaitStream))
        /\ wHasNotify => wSeen = wRecv

\* The call returned after three messages, the last one the completion, with
\* the source still open.
C12_Witness ==
    /\ wPc = "done"
    /\ ~wAlready /\ ~wCtxDone /\ ~wClosed
    /\ wHasNotify
    /\ Len(wSeen) = 3
    /\ wSeen[1] = "item/started" /\ wSeen[2] = "item/agentMessage/delta"
    /\ wSeen[3] = "turn/completed"

\* The call returned on a turn/completed message, the first one it received.
ReturnedOnCompleted ==
    /\ wRecv # <<>>
    /\ wRecv[Len(wRecv)] = "turn/completed"
    /\ \A i \in 1..(Len(wRecv) - 1) : wRecv[i] # "turn/completed"

\* The call returned on the closed and drained source.
ReturnedOnClosed ==
    /\ wClosed
    /\ wMsgs = <<>>
    /\ \A i \in 1..Len(wRecv) : wRecv[i] # "turn/completed"

\* C32: a call with alreadyCompleted = false returns success when it has
\* received turn/completed or found the source closed, and the error of the
\* context when the context is done; it returns in no other case and no other
\* error, and once the context is done it eventually returns.
C32_ThreeWaysToReturn ==
    /\ [](wPc = "done" /\ ~wAlready =>
            \/ wRet = "nil" /\ (ReturnedOnCompleted \/ ReturnedOnClosed)
            \/ wRet = "ctx" /\ wCtxDone)
    /\ (wPc = "call" /\ wCtxDone) ~> (wPc = "done")

\* The call received a message, the context was cancelled while the open
\* source held nothing more, and the call returned the error of the context.
C32_Witness ==
    /\ wPc = "done"
    /\ ~wAlready
    /\ wRet = "ctx"
    /\ wRecv # <<>>
    /\ wMsgs = <<>>
    /\ ~wClosed

\* ------------------------------------------------------------------ claims: turn state machine
TurnDone == tPc = "done"

TurnSucceeded == TurnDone /\ tErr = "nil"

EventsOfKind(kind) == {i \in 1..Len(tEvents) : tEvents[i].kind = kind}

SyntheticEvents == {i \in 1..Len(tEvents) : tEvents[i].synthetic}

\* The consumer was handed a reasoning delta of a notification.
ExplicitReasoningSeen ==
    \E i \in 1..Len(tEvents) : tEvents[i].kind = "reasoning" /\ ~tEvents[i].synthetic

\* C13: a successful turn with an event consumer delivers exactly one output
\* event; it is the last event delivered, the consumer accepted it, and its
\* text is the output of the returned result.
C13_OneFinalOutputEvent ==
    (TurnSucceeded /\ tHasConsumer) =>
        /\ Cardinality(EventsOfKind("output")) = 1
        /\ tEvents[Len(tEvents)].kind = "output"
        /\ tEvents[Len(tEvents)].delta = tResult.Output
        /\ tResult.Output # <<>>
        /\ \A i \in 1..Len(tEvents) : tEvents[i].ok

\* A successful turn whose output was assembled from two agent-message
\* deltas, after a reasoning delta was forwarded.
C13_Witness ==
    /\ TurnSucceeded /\ tHasConsumer
    /\ ~NonBlankText(lastAgentMessage)
    /\ tResult.Output = <<"a", " ", "b">>
    /\ Len(tEvents) = 2
    /\ tEvents[1].kind = "reasoning" /\ ~tEvents[1].synthetic
    /\ tEvents[2].delta = <<"a", " ", "b">>

\* C14: at the end of a successful turn with a consumer, the end-of-turn
\* reasoning event is delivered exactly when the reasoning text of the result
\* is non-empty and no reasoning delta of a notification was delivered; there
\* is at most one, it carries the whole reasoning text, and it is the event
\* right before the final output event.
C14_SyntheticReasoningEvent ==
    (TurnSucceeded /\ tHasConsumer) =>
        /\ (SyntheticEvents # {}) <=> (tResult.Reasoning # <<>> /\ ~ExplicitReasoningSeen)
        /\ Cardinality(SyntheticEvents) <= 1
        /\ \A i \in SyntheticEvents :
              /\ tEvents[i].kind = "reasoning"
              /\ tEvents[i].delta = tResult.Reasoning
              /\ i = Len(tEvents) - 1
              /\ tEvents[Len(tEvents)].kind = "output"

\* A successful turn of two agent messages and no reasoning notification: the
\* first message reaches the consumer as the end-of-turn reasoning event.
C14_Witness ==
    /\ TurnSucceeded /\ tHasConsumer
    /\ Len(agentMsgs) = 2
    /\ reasoning = <<>>
    /\ SyntheticEvents = {1}
    /\ tEvents[1].delta = agentMsgs[1]
    /\ Len(tEvents) = 2

\* The most recent completed agent message, if any.
LastCompleted == IF agentMsgs = <<>> THEN <<>> ELSE agentMsgs[Len(agentMsgs)]

\* C15 as stated: the output text is last_agent_message whenever that is
\* non-empty, and otherwise the most recent completed agent message.
C15_OutputAsStated ==
    tComputed =>
        tResult.Output = IF lastAgentMessage # <<>> THEN lastAgentMessage ELSE LastCompleted

\* C15 as the code has it: the output text is last_agent_message with its
\* surrounding white space removed when that leaves anything, and otherwise
\* the most recent completed agent message; no message buffer is left open.
C15_OutputPrecedence ==
    tComputed =>
        /\ tResult.Output = IF NonBlankText(lastAgentMessage)
                            THEN TrimSpace(lastAgentMessage)
                            ELSE LastCompleted
        /\ currentAgent = <<>> /\ ~inAgentMsg
        /\ tErr = "nil" => tResult.Output # <<>>

\* task_complete arrived before the agent message was assembled and
\* completed, and its value, not the message, is the output.
C15_Witness ==
    /\ TurnSucceeded
    /\ tItemAfterTask
    /\ NonBlankText(lastAgentMessage)
    /\ agentMsgs # <<>>
    /\ tResult.Output # LastCompleted
    /\ tResult.Output = TrimSpace(lastAgentMessage)

\* The completed messages before the last one.
Demoted == SubSeq(agentMsgs, 1, Len(agentMsgs) - 1)

\* C16 as stated: the reasoning text is the content of the explicit reasoning
\* buffer, then every completed message but the last, joined by blank lines.
C16_ReasoningAsStated ==
    tComputed =>
        tResult.Reasoning =
            Join((IF reasoning # <<>> THEN <<reasoning>> ELSE <<>>) \o Demoted, BlankLine)

\* C16 as the code has it: the same, with the explicit reasoning buffer
\* stripped of its surrounding white space.
C16_ReasoningText ==
    tComputed =>
        tResult.Reasoning =
            Join((IF NonBlankText(reasoning) THEN <<TrimSpace(reasoning)>> ELSE <<>>)
                    \o Demoted, BlankLine)

\* Three different messages were completed: the first two, in that order, are
\* the reasoning text, and the third is not part of it.
C16_Witness ==
    /\ tComputed
    /\ Len(agentMsgs) = 3
    /\ agentMsgs[1] # agentMsgs[2]
    /\ tResult.Reasoning = agentMsgs[1] \o BlankLine \o agentMsgs[2]
    /\ tResult.Output = agentMsgs[3]

\* C17: a turn whose computed output text is empty returns the "empty
\* assistant output" error and delivers neither the end-of-turn reasoning
\* event nor an output event; a turn that succeeds has a non-empty output.
C17_EmptyOutputFails ==
    /\ (tComputed /\ tResult.Output = <<>>) =>
          /\ tErr = "empty"
          /\ SyntheticEvents = {}
          /\ EventsOfKind("output") = {}
    /\ TurnSucceeded => (tComputed /\ tResult.Output # <<>>)
    /\ (TurnDone /\ tErr = "empty") => (tComputed /\ tResult.Output = <<>>)

\* A completed turn with a consumer has no output but a reasoning text: it
\* fails, and the reasoning delta of the notification is all the consumer saw.
C17_Witness ==
    /\ TurnDone /\ tHasConsumer
    /\ tErr = "empty"
    /\ turnCompleted
    /\ tResult.Reasoning # <<>>
    /\ Len(tEvents) = 1 /\ tEvents[1].ok

\* ------------------------------------------------------------------ claims: the one-time check
\* C18: however the first calls on an adapter interleave, the body of the
\* check is executed once, by one caller; a caller gets an answer from
\* ensureSubscriptionMode only after that execution has ended, and the answer
\* is the outcome it cached.
C18_CheckBodyRunsOnce ==
    /\ uBodyRuns <= 1
    /\ Cardinality({c \in Callers : uPc[c] = "body"}) <= 1
    /\ \A c \in Callers :
          /\ uPc[c] \in {"checked", "done"} => (uDone /\ uBodyRuns = 1)
          /\ uPc[c] = "done" => uSaw[c] = uOutcome

\* Three callers made their first call before the check had run; one ran the
\* body, the other two waited on the lock, and all three got the failure.
C18_Witness ==
    /\ \A c \in Callers : uPc[c] = "done" /\ ~uLate[c] /\ uSaw[c] = "api-key"
    /\ Cardinality({c \in Callers : uWaited[c]}) = 2
    /\ uOps = 3

\* C19: the outcome of the check never changes once it is there, the body is
\* not executed again, and an operation that begins after a failed check
\* returns that failure and starts no backend subprocess; no operation at all
\* starts a backend subprocess on an adapter whose check failed.
C19_OutcomeCached ==
    /\ uDone => (uAuthErr = uOutcome /\ uBodyRuns = 1)
    /\ \A c \in Callers :
          /\ (uPc[c] = "done" /\ uLate[c]) => uSaw[c] = uOutcome
          /\ (uPc[c] = "done" /\ uOutcome # "nil") => ~uSpawnedNow[c]
          /\ (uLate[c] /\ uPc[c] # "idle") => uBodyRuns = 1

\* A RespondStreamEvents call that began after the check had failed returned
\* the failure without a subprocess, although the environment would by then
\* have passed the check.
C19_Witness ==
    /\ uAdapter = "codex"
    /\ uLast.op = "RespondStreamEvents"
    /\ uLast.caller \in Callers
    /\ uPc[uLast.caller] = "done"
    /\ uLate[uLast.caller]
    /\ uSaw[uLast.caller] = "not-chatgpt"
    /\ ~uSpawnedNow[uLast.caller]
    /\ uEnvOk

\* ------------------------------------------------------------------ claims: consumer errors
\* The consumer returned an error for a delta of the streaming run.
ClaudeConsumerFailed ==
    \E i \in 1..Len(aCalls) : ~aCalls[i].ok /\ ~aCalls[i].synthetic

\* The streaming-text adapter: after the consumer's error the call made no
\* other run, did not invoke the consumer again, and returned an error.
ClaudeAborts ==
    (ClaudeDone /\ ClaudeConsumerFailed) =>
        /\ aRuns = <<"stream">>
        /\ ~aCalls[Len(aCalls)].ok
        /\ aRet.err # "nil"

\* The consumer returned an error for a reasoning delta of a notification.
CodexConsumerFailed ==
    \E i \in 1..Len(tEvents) : ~tEvents[i].ok /\ ~tEvents[i].synthetic

\* The persistent-session adapter: after the consumer's error the call took
\* no further message of the turn, did not invoke the consumer again, and
\* returned an error.
CodexAborts ==
    (TurnDone /\ CodexConsumerFailed) =>
        /\ ~tLate
        /\ ~tEvents[Len(tEvents)].ok
        /\ tErr # "nil"

\* C20: when the consumer returns an error during a streaming call, the
\* backend subprocess is terminated rather than run to completion, the
\* consumer is not invoked again, no further backend subprocess is started
\* for the call, and the call returns an error, on both adapters.
C20_ConsumerErrorAborts == ClaudeAborts /\ CodexAborts

\* ------------------------------------------------------------------ claims: HTTP errors
\* C21: a request without a model or without messages, or for a model no
\* adapter supports, is answered with a client error; a failure that arises in
\* a backend, the one met while the router asks an adapter whether it supports
\* the model included, is answered with an upstream error and never with a
\* client error.
C21_ErrorMapping ==
    http.pc = "done" =>
        /\ http.origin = "request" => http.status = 400 /\ http.type = "invalid_request_error"
        /\ http.origin = "backend" =>
               /\ http.type = "upstream_error"
               /\ http.status \notin 400..499

\* ------------------------------------------------------------------ claims: RPC client
\* The call that returned last, what it returned, and the request it had sent.
LastRet == rpc.rets[Len(rpc.rets)]

LastSent == rpc.sent[Len(rpc.sent)]

ResolvedByMessage == rpc.rets # <<>> /\ rpc.last # NoMsg

\* C22 as stated: a call returns on a message only if the id of the message is
\* the id of its request; with an error object it fails with the code and the
\* message of the object, otherwise it succeeds.
C22_AsStated ==
    ResolvedByMessage =>
        /\ rpc.last.id = LastSent.id
        /\ IF rpc.last.error # NoError
           THEN /\ LastRet.kind = "rpc"
                /\ LastRet.code = rpc.last.error.code
                /\ LastRet.text = rpc.last.error.message
           ELSE LastRet.kind = "nil"

\* C22 as amended: a call returns on a message only if the id of the message
\* is the id of its request; with an error object it fails with the code and
\* the message of the object, otherwise it returns what decoding the result
\* gives: success, or the decoding error when the result does not fit.
C22_ResolvedByMatchingId ==
    ResolvedByMessage =>
        /\ rpc.last.id = LastSent.id
        /\ IF rpc.last.error # NoError
           THEN /\ LastRet.kind = "rpc"
                /\ LastRet.code = rpc.last.error.code
                /\ LastRet.text = rpc.last.error.message
           ELSE LastRet.kind = (IF rpc.last.result = "bad" THEN "decode" ELSE "nil")

\* The second call failed on an error object, the first succeeded on a result.
C22_Witness ==
    /\ ResolvedByMessage
    /\ Len(rpc.rets) = 2
    /\ rpc.last.id = 2
    /\ rpc.last.error = [code |-> 2, message |-> <<"y">>]
    /\ LastRet.kind = "rpc"

\* No message in the channel would make the call in progress return.
NoAnswerQueued == \A i \in 1..Len(rpc.msgs) : rpc.msgs[i].id # rpc.id

\* C23: when the channel is closed and holds no message with the id of the
\* pending request, the call returns, and what it returns is the "stream
\* ended" error with the trimmed stderr, or with the text that stands for a
\* blank one; it does not return success.
C23_StreamEnded ==
    /\ [][rpc.pc = "recv" /\ rpc.closed /\ NoAnswerQueued /\ rpc'.pc # "recv" =>
            /\ rpc'.rets = Append(rpc.rets, RpcRet("ended", RpcMethods[rpc.step], 0,
                                   IF TrimSpace(rpc.stderr) = <<>> THEN Unknown
                                   ELSE TrimSpace(rpc.stderr)))
            /\ rpc'.err = "call"]_vars
    /\ (rpc.pc = "recv" /\ rpc.closed) ~> (rpc.pc # "recv")

\* A call returned the error with the stderr text, after messages for other
\* ids were left in the closed channel.
C23_Witness ==
    /\ rpc.rets # <<>>
    /\ LastRet = RpcRet("ended", "thread/start", 0, <<"a">>)
    /\ rpc.stderr = <<"a", " ">>
    /\ rpc.closed
    /\ rpc.last = NoMsg

\* The calls that wrote their request, among those that returned.
ReturnedSent == {i \in 1..Len(rpc.rets) : rpc.rets[i].kind # "write"}

\* C24: one client is created for the call; the requests are initialize,
\* thread/start, turn/start in this order, each sent once and only after the
\* call before it returned nil; at most one request is outstanding; the ids
\* increase; after a call failed no request is sent.
C24_RequestSequence ==
    /\ rpc.clients <= 1
    /\ rpc.sent # <<>> => rpc.clients = 1
    /\ Len(rpc.sent) <= Len(RpcMethods)
    /\ \A i \in 1..Len(rpc.sent) : rpc.sent[i].method = RpcMethods[i]
    /\ \A i \in 2..Len(rpc.sent) : Len(rpc.rets) >= i - 1 /\ rpc.rets[i - 1].kind = "nil"
    /\ Len(rpc.sent) - Cardinality(ReturnedSent) \in {0, 1}
    /\ Len(rpc.sent) - Cardinality(ReturnedSent) = 1 <=> rpc.pc = "recv"
    /\ \A i, j \in 1..Len(rpc.sent) : i < j => rpc.sent[i].id < rpc.sent[j].id
    /\ \A i \in 1..Len(rpc.rets) : rpc.rets[i].kind # "nil" => Len(rpc.sent) <= i /\ rpc.pc = "done"

\* The three requests were sent and answered.
C24_Witness ==
    /\ rpc.pc = "done"
    /\ rpc.err = "nil"
    /\ Len(rpc.sent) = 3
    /\ Len(rpc.rets) = 3

\* A message the pending call must pass to its observer and go on from: one
\* without an id, or one that names a method and whose id is not the id of the
\* request.
Forwardable(msg) == msg.id = 0 \/ (msg.id # rpc.id /\ msg.method)

\* The call that is given an observer, turn/start, has written its request.
ObservedCall == Len(rpc.sent) = Len(RpcMethods)

\* C31: while a call with an observer is pending, the messages it has gone
\* past are those whose id is not the id of its request; the observer was
\* given, in arrival order, exactly those of them that have no id or name a
\* method, and no other message.
C31_ObserverSeesUnmatched ==
    ObservedCall =>
        /\ \A i \in 1..Len(rpc.seen) : rpc.seen[i].id # rpc.id
        /\ rpc.notified = SelectSeq(rpc.seen, Forwardable)

\* ------------------------------------------------------------------ claims: no retries
\* C25: a streaming call on the streaming-text adapter runs the CLI at most
\* twice, a streaming run and then at most one plain-text run; a non-streaming
\* call runs it once, and not at all when the subscription check has failed;
\* no RPC request is written twice.
C25_NothingRetried ==
    /\ aSurface \in {"ChatStream", "RespondStream"} =>
           aRuns \in {<<>>, <<"stream">>, <<"stream", "text">>}
    /\ aSurface \in {"Chat", "Respond"} =>
           /\ aRuns \in {<<>>, <<"text">>}
           /\ aPc = "done" => (aRuns = <<>> <=> aAuthErr)
    /\ rpc.pc # "off" =>
           /\ \A i, j \in 1..Len(rpc.sent) :
                  i # j => /\ rpc.sent[i].id # rpc.sent[j].id
                           /\ rpc.sent[i].method # rpc.sent[j].method
           /\ \A i \in ReturnedSent :
                  Cardinality({k \in 1..Len(rpc.sent) : rpc.sent[k].id = i}) = 1

\* A streaming call made its two runs and returned.
C25_Witness ==
    /\ aSurface = "ChatStream"
    /\ aPc = "done"
    /\ aRuns = <<"stream", "text">>

\* ------------------------------------------------------------------ claims: Codex delta surfaces
\* C26: ChatStream and RespondStream of the Codex adapter invoke onDelta at
\* most once, only after runTurnStructured has returned without error, and
\* with the whole output of the turn; nothing is invoked while the turn runs
\* or when it fails.
C26_OneDeltaAfterSuccess ==
    codexDelta.pc # "off" =>
        /\ Len(codexDelta.calls) <= 1
        /\ tEvents = <<>>
        /\ codexDelta.calls # <<>> =>
               /\ tPc = "done"
               /\ tErr = "nil"
               /\ codexDelta.calls[1].delta = tResult.Output
        /\ codexDelta.pc = "done" /\ tErr # "nil" => codexDelta.calls = <<>> /\ codexDelta.ret = tErr

\* The turn took several agent-message deltas and onDelta got the one text.
C26_Witness ==
    /\ codexDelta.pc = "done"
    /\ tN >= 3
    /\ Len(codexDelta.calls) = 1
    /\ codexDelta.calls[1].delta = tResult.Output
    /\ codexDelta.ret = "nil"

\* ------------------------------------------------------------------ claims: the parser
\* The last line went to the loop over message.content.
FallbackLine == parser.parsed /\ parser.last.line.json /\ parser.last.line.text = <<>>

\* The entries of the last line whose text is not the one recorded before it.
Changed ==
    {i \in Indexes : parser.last.line.content[i] # <<>>
                     /\ parser.last.line.content[i] # parser.last.before[i]}

FirstChanged == CHOOSE i \in Changed : \A j \in Changed : i <= j

\* C27: when a text is recorded for an index and the new text for it does not
\* extend the recorded one, the whole new text is emitted (ok = true) and
\* becomes the recorded text.
C27_NonPrefixReset ==
    FallbackLine /\ Changed # {} =>
        LET i == FirstChanged
            full == parser.last.line.content[i]
        IN  parser.last.before[i] # <<>> /\ ~HasPrefix(full, parser.last.before[i]) =>
                /\ parser.last.ok
                /\ parser.last.delta = full
                /\ parser.lastByIndex[i] = full

\* C28: while each text the parser examines at an index extends the one
\* before, the delta emitted is the new suffix, the whole text at the first
\* observation and nothing for an unchanged text, so the deltas emitted for
\* the index, concatenated, are the last text examined there.
C28_ExtensionSuffix ==
    /\ \A i \in Indexes : parser.ext[i] => parser.concat[i] = parser.full[i]
    /\ FallbackLine =>
         IF Changed = {}
         THEN ~parser.last.ok /\ parser.last.delta = <<>> /\ parser.lastByIndex = parser.last.before
         ELSE LET i == FirstChanged
                  full == parser.last.line.content[i]
                  prev == parser.last.before[i]
              IN  HasPrefix(full, prev) =>
                      /\ parser.last.ok
                      /\ prev \o parser.last.delta = full
                      /\ prev = <<>> => parser.last.delta = full
                      /\ parser.lastByIndex[i] = full

\* The text at the first index grew from "a" to "ab" and the suffix was emitted.
C28_Witness ==
    /\ FallbackLine
    /\ parser.ext[1]
    /\ parser.last.before[1] = <<"a">>
    /\ parser.last.delta = <<"b">>
    /\ parser.concat[1] = <<"a", "b">>
    /\ parser.full[1] = <<"a", "b">>

\* C29: a content_block_delta line with delta.text gives an output delta with
\* that text, one with delta.thinking a reasoning delta with that text, and
\* the adapter forwards each with its kind.
C29_DeltaKinds ==
    parser.parsed /\ parser.last.line.type = "content_block_delta" =>
        /\ parser.last.line.text # <<>> =>
               parser.last.ok /\ parser.last.delta = parser.last.line.text /\ parser.last.kind = "output"
        /\ parser.last.line.thinking # <<>> =>
               parser.last.ok /\ parser.last.delta = parser.last.line.thinking /\ parser.last.kind = "reasoning"

\* The content_block_delta event that a stream_event line wraps.
Unwrapped(line) ==
    [NotJson EXCEPT !.json = TRUE, !.type = "content_block_delta", !.text = line.eventText]

\* C30: a stream_event line that wraps a content_block_delta with delta.text
\* gives what the unwrapped event gives: its text, with ok = true.
C30_WrappedEvent ==
    parser.parsed /\ parser.last.line.type = "stream_event" /\ parser.last.line.eventText # <<>> =>
        /\ parser.last.ok
        /\ parser.last.delta = extractClaudeDelta(Unwrapped(parser.last.line), parser.last.before).delta
        /\ parser.last.delta = parser.last.line.eventText

\* ------------------------------------------------------------------ claims: the closure notify
\* notify has just handled msg.
Handled(msg) == turnState'.n = turnState.n + 1 /\ turnState'.msg = msg

\* The completed messages that the stretches of deltas give: each stretch
\* that is not blank, without its surrounding white space.
MessagesOf(segs) ==
    LET kept == SelectSeq(segs, NonBlankText)
    IN  [i \in 1..Len(kept) |-> TrimSpace(kept[i])]

\* C33 as stated: an agent-message item/started on a non-empty buffer makes the
\* buffered text a completed message of its own, with nothing of it lost,
\* before the new message is opened on an empty buffer.
C33_AsStated ==
    [][Handled(ItemStarted) /\ turnState.st.currentAgent # <<>> =>
          /\ turnState'.st.agentMsgs = Append(turnState.st.agentMsgs,
                                             turnState.st.currentAgent)
          /\ turnState'.st.currentAgent = <<>>
          /\ turnState'.st.inAgentMsg]_vars

\* C33 as amended: an agent-message item/started on a non-empty buffer makes
\* the buffered text, without its surrounding white space, a completed
\* message of its own, or drops it when it is blank, before the new message is
\* opened on an empty buffer; so the completed messages are, one for one, the
\* non-blank stretches of deltas between agent-message item notifications,
\* and the open buffer is the stretch in progress.
C33_FlushBeforeOpen ==
    /\ [][Handled(ItemStarted) /\ turnState.st.currentAgent # <<>> =>
            /\ turnState'.st.agentMsgs =
                   IF NonBlankText(turnState.st.currentAgent)
                   THEN Append(turnState.st.agentMsgs, TrimSpace(turnState.st.currentAgent))
                   ELSE turnState.st.agentMsgs
            /\ turnState'.st.currentAgent = <<>>
            /\ turnState'.st.inAgentMsg]_vars
    /\ [](/\ turnState.st.agentMsgs = MessagesOf(turnState.segs)
          /\ turnState.st.currentAgent = turnState.open)

\* A delta, an item/started, a delta and an item/completed: two completed
\* messages, one for the delta before the item/started and one for the delta
\* after it.
C33_Witness ==
    /\ turnState.n = 4
    /\ turnState.msg = ItemCompleted
    /\ turnState.segs = <<<<"a", " ">>, <<"b">>>>
    /\ turnState.st.agentMsgs = <<<<"a">>, <<"b">>>>

\* What completeAgentMessage leaves of the locals before: the buffer, trimmed,
\* appended exactly when it is not blank, an empty buffer, no open message.
Finalized(before, after) ==
    /\ after.agentMsgs = IF NonBlankText(before.currentAgent)
                         THEN Append(before.agentMsgs, TrimSpace(before.currentAgent))
                         ELSE before.agentMsgs
    /\ after.currentAgent = <<>>
    /\ ~after.inAgentMsg

\* The turn has just ended with state.result computed.
ResultComputed == turnState.pc = "run" /\ turnState'.pc = "done" /\ turnState'.err # "callback"

\* C34: completeAgentMessage appends the trimmed buffer exactly when it is not
\* blank and leaves the buffer empty and no message open, on an agent-message
\* item/completed and, through finalize, when the result of the turn is
\* computed, where a buffer still open becomes the last completed message;
\* every completed message is a non-empty trimmed text.
C34_Finalize ==
    /\ [][/\ Handled(ItemCompleted) => Finalized(turnState.st, turnState'.st)
          /\ ResultComputed =>
               /\ Finalized(turnState.st, turnState'.st)
               /\ NonBlankText(turnState.st.currentAgent) =>
                      turnState'.st.agentMsgs[Len(turnState'.st.agentMsgs)]
                          = TrimSpace(turnState.st.currentAgent)]_vars
    /\ [](\A i \in 1..Len(turnState.st.agentMsgs) :
             /\ turnState.st.agentMsgs[i] # <<>>
             /\ TrimSpace(turnState.st.agentMsgs[i]) = turnState.st.agentMsgs[i])

\* The turn ended right after a delta, with no item/completed: the buffer
\* "a " became the completed message "a", the output of the turn.
C34_Witness ==
    /\ turnState.pc = "done"
    /\ turnState.err = "nil"
    /\ turnState.msg = Notification("item/agentMessage/delta", <<"a", " ">>, "")
    /\ turnState.st.agentMsgs = <<<<"a">>>>
    /\ turnState.st.currentAgent = <<>>
    /\ ~turnState.st.inAgentMsg
    /\ turnState.res.Output = <<"a">>

\* C35: while the turn runs and when its result is computed, the completed
\* messages and the reasoning buffer only grow at their end: what they held
\* stays, in place and unchanged; and one agent message at most is open: a
\* new one is opened on an empty buffer, the one before having been closed.
C35_AppendOnly ==
    [][turnState.pc = "run" =>
          /\ HasPrefix(turnState'.st.agentMsgs, turnState.st.agentMsgs)
          /\ HasPrefix(turnState'.st.reasoning, turnState.st.reasoning)
          /\ Len(turnState'.st.agentMsgs) <= Len(turnState.st.agentMsgs) + 1
          /\ Handled(ItemStarted) =>
                 turnState'.st.currentAgent = <<>> /\ turnState'.st.inAgentMsg]_vars

\* Two reasoning deltas and a completed message were handled, then a second
\* message was opened.
C35_Witness ==
    /\ turnState.n = 4
    /\ turnState.st.reasoning = <<"a", " ", "a", " ">>
    /\ turnState.st.agentMsgs = <<<<"b">>>>
    /\ turnState.st.inAgentMsg
    /\ turnState.msg = ItemStarted

\* A reasoning-summary delta notification with a text.
ReasoningDelta(msg) == msg.method = "item/reasoning/summaryTextDelta" /\ msg.delta # <<>>

\* The reasoning deltas of notifications that the consumer was given, in
\* order, as one text.
ForwardedReasoning ==
    LET explicit(e) == e.kind = "reasoning" /\ ~e.synthetic
        given == SelectSeq(turnState.st.events, explicit)
    IN  Join([i \in 1..Len(given) |-> given[i].delta], <<>>)

\* C36: a reasoning-summary delta with a non-empty text is appended to the
\* reasoning buffer, marks reasoning as observed and, while there is a
\* consumer that has not failed, is handed to it as the next event, a
\* reasoning event with that text; so the reasoning text a turn returns begins
\* with the forwarded reasoning deltas, concatenated.
C36_ReasoningRecordedAndForwarded ==
    /\ [][turnState'.n = turnState.n + 1 /\ ReasoningDelta(turnState'.msg) =>
            /\ turnState'.st.reasoning = turnState.st.reasoning \o turnState'.msg.delta
            /\ turnState'.st.emittedReasoning
            /\ turnState.st.hasConsumer /\ ~turnState.st.callbackErr =>
                 /\ Len(turnState'.st.events) = Len(turnState.st.events) + 1
                 /\ SubSeq(turnState'.st.events, 1, Len(turnState.st.events))
                        = turnState.st.events
                 /\ turnState'.st.events[Len(turnState'.st.events)].kind = "reasoning"
                 /\ turnState'.st.events[Len(turnState'.st.events)].delta
                        = turnState'.msg.delta]_vars
    /\ [](turnState.pc = "done" /\ turnState.err = "nil" =>
             HasPrefix(turnState.res.Reasoning, ForwardedReasoning))

\* ------------------------------------------------------------------ claims: the reader goroutine
\* The lines the reader has parsed, in the order it read them.
ParsedLines == SelectSeq(reader.lines, IsJson)

\* The message the reader is about to send, if any.
Held == IF reader.hold = "none" THEN <<>> ELSE <<reader.hold>>

C40_ReaderTerminates ==
    (reader.closeCalls > 0) ~> (reader.pc = "exit" /\ reader.closes = 1)

\* ------------------------------------------------------------------ claims: Close
\* C38: a call creates one client at most; Close is not invoked while the
\* call runs, and when the call has returned, on whatever path, Close has been
\* invoked once if the client was created and not at all if it was not, and
\* the subprocess no longer runs.
C38_ClosedOnEveryReturn ==
    /\ tSpawned <= 1
    /\ tPc # "done" => tCloses = 0
    /\ tPc = "done" => tCloses = tSpawned /\ ~tAlive

\* The consumer failed during a turn that went on to its completion: the call
\* returned its error and the client was closed once.
C38_Witness ==
    /\ tPc = "done"
    /\ tErr = "callback"
    /\ turnCompleted
    /\ tSpawned = 1
    /\ tCloses = 1
    /\ ~tAlive

\* ------------------------------------------------- claims: output_index per item
\* C39: within one streaming Responses reply no two events that reference
\* different item ids carry the same output_index: the reasoning item and the
\* message item never share an index, whatever the order of the deltas.
C39_IndexNotShared ==
    \A i, j \in 1..Len(rWire) :
        (/\ rWire[i].item \in ItemIDs
         /\ rWire[j].item \in ItemIDs
         /\ rWire[i].item # rWire[j].item)
            => rWire[i].idx # rWire[j].idx

====
